---------------------------- MODULE TransferStore ----------------------------
(***************************************************************************)
(* ChunkedTransferActor (crates/core/src/transfer/actor.rs): the daemon's  *)
(* store of resumable uploads.  One task handles the commands in turn; the *)
(* hash of a finished file is computed by a task of its own (`seal'), which *)
(* reports back with one more command, so that other commands, an abandon  *)
(* among them, are handled while a file is being hashed.  A restart finds  *)
(* the files and sidecars the last run left.                               *)
(*                                                                         *)
(* A file is a sequence of blocks, and the SHA-256 of a file is the file   *)
(* itself: distinct contents have distinct digests.  last_touched_unix is  *)
(* left out: which transfer is the oldest, and when one is stale, is any   *)
(* choice.  Commands refused without a change of state take no step.       *)
(***************************************************************************)
EXTENDS Integers, Sequences, Functions

CONSTANTS
  Ids,         \* transfer ids; an id names one .partial and one .meta file
  Blocks,      \* what a block of a file can be
  Artifacts,   \* set of [size, sha] a caller asks for
  Chunks,      \* set of block sequences a caller sends
  Budget,      \* TRANSFER_DISK_BUDGET_BYTES
  MaxCalls,    \* bound on the calls answered by a seal
  MaxFaults,   \* bound on failed writes
  MaxCrashes,  \* bound on restarts
  LateSeals    \* whether an id may begin anew while an old file of it is hashed

\* The expected_sha256 of a caller that gave none, and the digest of a file
\* that cannot be read.
NoHash == <<"no hash">>
IoError == <<"io error">>

Content == Seq(Blocks)

ASSUME StoreAssumption ==
  /\ Ids # {}
  /\ Artifacts \subseteq [size : Nat, sha : Content \union {NoHash}]
  /\ Chunks \subseteq Content
  /\ Budget \in Nat
  /\ MaxCalls \in Nat /\ MaxFaults \in Nat /\ MaxCrashes \in Nat
  /\ LateSeals \in BOOLEAN

VARIABLES
  transfers,    \* the map of the actor: id -> Transfer, or Absent
  total,        \* total_disk_bytes
  completing,   \* pending_completions: id -> call, or NoCall
  verifying,    \* pending_begin_verifies: id -> call, or NoCall
  fresh,        \* the arguments of the begin_fresh under way, or Idle
  booting,      \* the ids bootstrap has yet to look at
  partial,      \* the .partial files, or Missing
  meta,         \* the .meta sidecars, or Missing
  seal,         \* the seal of each call: its task, then its command
  answer,       \* observation: what each call was answered
  faults, crashes

vars == <<transfers, total, completing, verifying, fresh, booting, partial, meta, seal,
          answer, faults, crashes>>

memory == <<transfers, total, completing, verifying, booting>>
disk == <<partial, meta>>

Call == 1..MaxCalls
NoCall == 0

Absent == [size |-> 0, sha |-> NoHash, received |-> 0, complete |-> FALSE, live |-> FALSE]
Missing == [exists |-> FALSE, blocks |-> <<>>]
NoMeta == [exists |-> FALSE, size |-> 0, sha |-> NoHash, complete |-> FALSE]
Idle == [busy |-> FALSE, id |-> CHOOSE id \in Ids : TRUE, size |-> 0, sha |-> NoHash, call |-> NoCall]

Live == {id \in Ids : transfers[id].live}

\* The actor is between two commands.
Ready == ~ fresh.busy /\ booting = {}

File(blocks) == [exists |-> TRUE, blocks |-> blocks]
Meta(t) == [exists |-> TRUE, size |-> t.size, sha |-> t.sha, complete |-> t.complete]

Init ==
  /\ transfers = [id \in Ids |-> Absent]
  /\ total = 0
  /\ completing = [id \in Ids |-> NoCall]
  /\ verifying = [id \in Ids |-> NoCall]
  /\ fresh = Idle
  /\ booting = {}
  /\ partial = [id \in Ids |-> Missing]
  /\ meta = [id \in Ids |-> NoMeta]
  /\ seal = <<>>
  /\ answer = <<>>
  /\ faults = 0
  /\ crashes = 0

-----------------------------------------------------------------------------
(* Calls that wait for a seal.                                               *)

\* A call of this kind starts a seal of id; `settled' is what happens at the
\* same time to the answers of the calls before it.
StartSeal(kind, id, settled) ==
  /\ Len(seal) < MaxCalls
  /\ seal' = Append(seal, [kind |-> kind, id |-> id, stage |-> "running", digest |-> IoError])
  /\ answer' = Append(settled, "waiting")

\* Answering call c, if there is one.
Settled(ans, c, what) == IF c = NoCall THEN ans ELSE [ans EXCEPT ![c] = what]

\* An old seal of id is still under way.
Sealing(id) ==
  \E c \in DOMAIN seal : seal[c].id = id /\ seal[c].stage \in {"running", "hashed"}

\* The seal task: digest the file, sync it, queue the command that reports it.
SealFile(c) ==
  /\ seal[c].stage = "running"
  /\ LET f == partial[seal[c].id] IN
       seal' = [seal EXCEPT ![c].stage = "hashed",
                            ![c].digest = IF f.exists THEN f.blocks ELSE IoError]
  /\ UNCHANGED <<memory, fresh, disk, answer, faults, crashes>>

-----------------------------------------------------------------------------
(* Dropping a transfer: its pending callers are told, its files removed.     *)

\* Mutants: the expected size is freed, unsaturated; nothing is freed.
Remaining_Expected(t) == total - t.size
Remaining_Nothing(t) == total

Remaining(t) == IF t.received <= total THEN total - t.received ELSE 0

\* Mutants: a pending acknowledgement outlives its transfer; it is removed and
\* nobody is told.
Drop_KeepsPending(id, ans) ==
  /\ transfers' = [transfers EXCEPT ![id] = Absent]
  /\ total' = Remaining(transfers[id])
  /\ partial' = [partial EXCEPT ![id] = Missing]
  /\ meta' = [meta EXCEPT ![id] = NoMeta]
  /\ answer' = ans
  /\ UNCHANGED <<completing, verifying>>

Drop_Silent(id, ans) ==
  /\ transfers' = [transfers EXCEPT ![id] = Absent]
  /\ total' = Remaining(transfers[id])
  /\ completing' = [completing EXCEPT ![id] = NoCall]
  /\ verifying' = [verifying EXCEPT ![id] = NoCall]
  /\ partial' = [partial EXCEPT ![id] = Missing]
  /\ meta' = [meta EXCEPT ![id] = NoMeta]
  /\ answer' = ans

Drop(id, ans) ==
  /\ transfers' = [transfers EXCEPT ![id] = Absent]
  /\ total' = Remaining(transfers[id])
  /\ completing' = [completing EXCEPT ![id] = NoCall]
  /\ verifying' = [verifying EXCEPT ![id] = NoCall]
  /\ partial' = [partial EXCEPT ![id] = Missing]
  /\ meta' = [meta EXCEPT ![id] = NoMeta]
  /\ answer' = Settled(Settled(ans, completing[id], "abandoned"), verifying[id], "abandoned")

\* Abandon, one of the ids of AbandonMatching, or one that the sweep finds stale.
Abandon(id) ==
  /\ Ready
  /\ transfers[id].live
  /\ Drop(id, answer)
  /\ UNCHANGED <<booting, fresh, seal, faults, crashes>>

-----------------------------------------------------------------------------
(* Begin.  A transfer known with the same size and hash resumes (no change), *)
(* or is verified again when all of it is there.                             *)

Unsettled(id) == completing[id] # NoCall \/ verifying[id] # NoCall

BeginVerify(id) ==
  /\ Ready
  /\ ~ Unsettled(id)
  /\ transfers[id].live
  /\ transfers[id].complete \/ transfers[id].received = transfers[id].size
  /\ StartSeal("verify", id, answer)
  /\ verifying' = [verifying EXCEPT ![id] = Len(seal')]
  /\ UNCHANGED <<booting, transfers, total, completing, fresh, disk, faults, crashes>>

\* An unknown id that fits the budget by itself enters begin_fresh.
BeginFresh(id, a) ==
  /\ Ready
  /\ a.size <= Budget
  /\ ~ Unsettled(id)
  /\ ~ transfers[id].live
  /\ LateSeals \/ ~ Sealing(id)
  /\ fresh' = [busy |-> TRUE, id |-> id, size |-> a.size, sha |-> a.sha, call |-> NoCall]
  /\ UNCHANGED <<memory, disk, seal, answer, faults, crashes>>

Fits(incoming) == total + incoming <= Budget

\* One turn of evict_until_under.
Evict(victim) ==
  /\ fresh.busy
  /\ ~ Fits(fresh.size)
  /\ transfers[victim].live
  /\ Drop(victim, answer)
  /\ UNCHANGED <<booting, fresh, seal, faults, crashes>>

\* begin_fresh makes a new empty file and its sidecar.
FinishFresh ==
  LET t == [size |-> fresh.size, sha |-> fresh.sha, received |-> 0, complete |-> FALSE, live |-> TRUE] IN
  /\ fresh.busy
  /\ Fits(fresh.size)
  /\ transfers' = [transfers EXCEPT ![fresh.id] = t]
  /\ partial' = [partial EXCEPT ![fresh.id] = File(<<>>)]
  /\ meta' = [meta EXCEPT ![fresh.id] = Meta(t)]
  /\ answer' = Settled(answer, fresh.call, "restarted")
  /\ fresh' = Idle
  /\ UNCHANGED <<booting, total, completing, verifying, seal, faults, crashes>>

\* The old file cannot be removed, the new one not made, or its sidecar not
\* written: what is left is unknown to the actor.
FailFresh ==
  /\ fresh.busy
  /\ Fits(fresh.size)
  /\ faults < MaxFaults
  /\ faults' = faults + 1
  /\ \E left \in {partial[fresh.id], Missing, File(<<>>)} :
       partial' = [partial EXCEPT ![fresh.id] = left]
  /\ answer' = Settled(answer, fresh.call, "io")
  /\ fresh' = Idle
  /\ UNCHANGED <<memory, meta, seal, crashes>>

-----------------------------------------------------------------------------
(* Chunks.  The caller names the offset received; any other is refused.      *)

\* Mutant: the size check forgets the chunk.
Acceptable_BeforeChunk(id, blocks) ==
  /\ transfers[id].live
  /\ partial[id].exists
  /\ transfers[id].received <= transfers[id].size

\* What handle_chunk_write checks before it writes.
Acceptable(id, blocks) ==
  /\ transfers[id].live
  /\ partial[id].exists
  /\ transfers[id].received + Len(blocks) <= transfers[id].size

\* The file takes the blocks; the last of them starts the seal.
AcceptChunk(id, blocks) ==
  LET received == transfers[id].received + Len(blocks) IN
  /\ Ready
  /\ Acceptable(id, blocks)
  /\ partial' = [partial EXCEPT ![id].blocks = @ \o blocks]
  /\ transfers' = [transfers EXCEPT ![id].received = received]
  /\ total' = total + Len(blocks)
  /\ IF received < transfers[id].size
     THEN UNCHANGED <<completing, seal, answer>>
     ELSE /\ StartSeal("hash", id, Settled(answer, completing[id], "dropped"))
          /\ completing' = [completing EXCEPT ![id] = Len(seal')]
  /\ UNCHANGED <<booting, verifying, fresh, meta, faults, crashes>>

\* The write fails after a part of the blocks.  tokio's file writes behind the
\* caller's back: the failure shows in this write_all, which leaves the chunk
\* uncounted, or only in the next write or the flush, when it has been counted.
FailChunk(id, blocks) ==
  /\ Ready
  /\ Acceptable(id, blocks)
  /\ faults < MaxFaults
  /\ faults' = faults + 1
  /\ \E n \in 0..Len(blocks) :
       partial' = [partial EXCEPT ![id].blocks = @ \o SubSeq(blocks, 1, n)]
  /\ \/ UNCHANGED <<transfers, total>>
     \/ /\ transfers' = [transfers EXCEPT ![id].received = @ + Len(blocks)]
        /\ total' = total + Len(blocks)
  /\ UNCHANGED <<completing, verifying, booting, fresh, meta, seal, answer, crashes>>

-----------------------------------------------------------------------------
(* The seal's command comes back.                                            *)

Finished(c) == seal' = [seal EXCEPT ![c].stage = "finished"]

Matches(digest, sha) == sha = NoHash \/ digest = sha

\* The transfer is complete, and the sidecar says so if it can be written; a
\* failed write leaves the old one, or a cut one, which bootstrap takes for none.
MarkComplete(id) ==
  /\ transfers' = [transfers EXCEPT ![id].complete = TRUE]
  /\ \/ /\ meta' = [meta EXCEPT ![id] = Meta(transfers'[id])]
        /\ UNCHANGED faults
     \/ /\ faults < MaxFaults
        /\ faults' = faults + 1
        /\ \E left \in {meta[id], NoMeta} : meta' = [meta EXCEPT ![id] = left]

\* handle_hash_completed: the answer goes to the call that waits under the id,
\* and to nobody when none does.
HashCompleted(c) ==
  LET id == seal[c].id
      waits == completing[id]
  IN
  /\ Ready
  /\ seal[c].kind = "hash" /\ seal[c].stage = "hashed"
  /\ Finished(c)
  /\ completing' = [completing EXCEPT ![id] = NoCall]
  /\ \/ /\ waits = NoCall
        /\ UNCHANGED <<transfers, meta, answer, faults>>
     \/ /\ waits # NoCall /\ seal[c].digest = IoError
        /\ answer' = Settled(answer, waits, "io")
        /\ UNCHANGED <<transfers, meta, faults>>
     \/ /\ waits # NoCall /\ seal[c].digest # IoError
        /\ ~ Matches(seal[c].digest, transfers[id].sha)
        /\ answer' = Settled(answer, waits, "mismatch")
        /\ UNCHANGED <<transfers, meta, faults>>
     \/ /\ waits # NoCall /\ seal[c].digest # IoError
        /\ Matches(seal[c].digest, transfers[id].sha)
        /\ MarkComplete(id)
        /\ answer' = Settled(answer, waits, "complete")
  /\ UNCHANGED <<booting, total, verifying, fresh, partial, crashes>>

\* handle_begin_verified: a file that fails its check is dropped and begun anew.
BeginVerified(c) ==
  LET id == seal[c].id
      waits == verifying[id]
      t == transfers[id]
  IN
  /\ Ready
  /\ seal[c].kind = "verify" /\ seal[c].stage = "hashed"
  /\ Finished(c)
  /\ \/ /\ waits = NoCall \/ seal[c].digest = IoError
        /\ verifying' = [verifying EXCEPT ![id] = NoCall]
        /\ answer' = Settled(answer, waits, "io")
        /\ UNCHANGED <<transfers, total, completing, fresh, disk, faults>>
     \/ /\ waits # NoCall /\ seal[c].digest # IoError /\ Matches(seal[c].digest, t.sha)
        /\ verifying' = [verifying EXCEPT ![id] = NoCall]
        /\ answer' = Settled(answer, waits, "complete")
        /\ IF t.complete THEN UNCHANGED <<transfers, meta, faults>> ELSE MarkComplete(id)
        /\ UNCHANGED <<total, completing, fresh, partial>>
     \/ /\ waits # NoCall /\ seal[c].digest # IoError /\ ~ Matches(seal[c].digest, t.sha)
        /\ transfers' = [transfers EXCEPT ![id] = Absent]
        /\ total' = Remaining(t)
        /\ completing' = [completing EXCEPT ![id] = NoCall]
        /\ verifying' = [verifying EXCEPT ![id] = NoCall]
        /\ partial' = [partial EXCEPT ![id] = Missing]
        /\ meta' = [meta EXCEPT ![id] = NoMeta]
        /\ answer' = Settled(answer, completing[id], "abandoned")
        /\ fresh' = [busy |-> TRUE, id |-> id, size |-> t.size, sha |-> t.sha, call |-> waits]
        /\ UNCHANGED faults
  /\ UNCHANGED <<booting, crashes>>

-----------------------------------------------------------------------------
(* The owner of a completed file moves it away (BlobStore place), before it  *)
(* abandons the transfer; it is not in another call on the id meanwhile.     *)

Take(id) ==
  /\ Ready
  /\ transfers[id].complete
  /\ partial[id].exists
  /\ ~ Unsettled(id)
  /\ partial' = [partial EXCEPT ![id] = Missing]
  /\ UNCHANGED <<memory, fresh, meta, seal, answer, faults, crashes>>

-----------------------------------------------------------------------------
(* A restart loses the actor, its seals and its callers; the tail of one     *)
(* file and its sidecar may be lost with them: neither is synced before the  *)
(* seal, and a sealed file may still come back cut (the test of a truncated  *)
(* retained artifact).  Bootstrap then takes the sidecars in turn.           *)

Torn(f, n) == [f EXCEPT !.blocks = SubSeq(@, 1, n)]

Crash ==
  /\ crashes < MaxCrashes
  /\ crashes' = crashes + 1
  /\ \E id \in Ids : \E n \in 0..Len(partial[id].blocks) : \E left \in {meta[id], NoMeta} :
       /\ partial' = [partial EXCEPT ![id] = Torn(@, n)]
       /\ meta' = [meta EXCEPT ![id] = left]
  /\ booting' = Ids
  /\ transfers' = [id \in Ids |-> Absent]
  /\ total' = 0
  /\ completing' = [id \in Ids |-> NoCall]
  /\ verifying' = [id \in Ids |-> NoCall]
  /\ fresh' = Idle
  /\ seal' = [c \in DOMAIN seal |-> [seal[c] EXCEPT !.stage = "finished"]]
  /\ answer' = [c \in DOMAIN answer |-> IF answer[c] = "waiting" THEN "lost" ELSE answer[c]]
  /\ UNCHANGED faults

Least(a, b) == IF a <= b THEN a ELSE b

\* Mutant: a sidecar that says complete is believed.
Recovered_TrustsSidecar(f, m) ==
  [size |-> m.size, sha |-> m.sha,
   received |-> IF m.complete THEN m.size ELSE Least(Len(f.blocks), m.size),
   complete |-> m.complete, live |-> TRUE]

\* load_recovered_transfer.
Recovered(f, m) ==
  LET received == Least(Len(f.blocks), m.size) IN
  [size |-> m.size, sha |-> m.sha, received |-> received,
   complete |-> m.complete /\ received = m.size, live |-> TRUE]

\* One id of bootstrap's loop, and of sweep_unreferenced: a file longer than
\* its transfer is cut, a file or a sidecar without the other is removed.
Recover(id) ==
  /\ id \in booting
  /\ booting' = booting \ {id}
  /\ IF meta[id].exists /\ partial[id].exists
     THEN /\ transfers' = [transfers EXCEPT ![id] = Recovered(partial[id], meta[id])]
          /\ total' = total + transfers'[id].received
          /\ partial' = [partial EXCEPT ![id] = Torn(@, Least(Len(@.blocks), meta[id].size))]
          /\ UNCHANGED meta
     ELSE /\ partial' = [partial EXCEPT ![id] = Missing]
          /\ meta' = [meta EXCEPT ![id] = NoMeta]
          /\ UNCHANGED <<transfers, total>>
  /\ UNCHANGED <<completing, verifying, fresh, seal, answer, faults, crashes>>

-----------------------------------------------------------------------------
Commands(id) ==
  \/ Abandon(id) \/ BeginVerify(id) \/ Take(id)
  \/ \E a \in Artifacts : BeginFresh(id, a)
  \/ \E blocks \in Chunks : AcceptChunk(id, blocks) \/ FailChunk(id, blocks)

Next ==
  \/ \E id \in Ids : Commands(id) \/ Evict(id) \/ Recover(id)
  \/ FinishFresh \/ FailFresh \/ Crash
  \/ \E c \in DOMAIN seal : SealFile(c) \/ HashCompleted(c) \/ BeginVerified(c)

Spec == Init /\ [][Next]_vars

(* The actor's task runs, and so do the tasks it spawned. *)
Fairness ==
  /\ WF_vars(FinishFresh \/ \E id \in Ids : Evict(id))
  /\ \A id \in Ids : WF_vars(Recover(id))
  /\ \A c \in Call : WF_vars(c \in DOMAIN seal /\ SealFile(c))
                     /\ SF_vars(c \in DOMAIN seal /\ (HashCompleted(c) \/ BeginVerified(c)))

FairSpec == Spec /\ Fairness

-----------------------------------------------------------------------------
(* Properties.                                                               *)

Transfer == [size : Nat, sha : Content \union {NoHash}, received : Nat,
             complete : BOOLEAN, live : BOOLEAN]

Answers == {"waiting", "complete", "mismatch", "io", "abandoned", "restarted", "dropped", "lost"}

\* Every variable has its type.
TypeOK ==
  /\ transfers \in [Ids -> Transfer]
  /\ total \in Nat
  /\ completing \in [Ids -> Call \union {NoCall}]
  /\ verifying \in [Ids -> Call \union {NoCall}]
  /\ fresh \in [busy : BOOLEAN, id : Ids, size : Nat, sha : Content \union {NoHash},
                call : Call \union {NoCall}]
  /\ booting \subseteq Ids
  /\ partial \in [Ids -> [exists : BOOLEAN, blocks : Content]]
  /\ meta \in [Ids -> [exists : BOOLEAN, size : Nat, sha : Content \union {NoHash},
                       complete : BOOLEAN]]
  /\ seal \in Seq([kind : {"hash", "verify"}, id : Ids,
                   stage : {"running", "hashed", "finished"},
                   digest : Content \union {IoError}])
  /\ answer \in Seq(Answers)
  /\ faults \in Nat /\ crashes \in Nat

\* The call c waits for a seal of id that is still to report.
AwaitsSeal(c, id, kind) ==
  /\ c \in DOMAIN seal
  /\ seal[c].id = id /\ seal[c].kind = kind
  /\ seal[c].stage \in {"running", "hashed"}
  /\ answer[c] = "waiting"

\* A pending acknowledgement always has its transfer and its own seal under
\* way: an id whose Begin is refused as conflicting (begin_fast_path) is not
\* refused for ever, and no seal settles a transfer that is gone.
PendingHasSeal ==
  \A id \in Ids :
    /\ completing[id] # NoCall \/ verifying[id] # NoCall => transfers[id].live
    /\ completing[id] # NoCall => AwaitsSeal(completing[id], id, "hash")
    /\ verifying[id] # NoCall => AwaitsSeal(verifying[id], id, "verify")

\* While the actor runs no caller finds its acknowledgement closed: no call
\* takes the place of another in pending_completions.  (The chunks of the
\* callers in src/ are not empty; an empty one at the end of the file would.)
NoCallerDropped == \A c \in DOMAIN answer : answer[c] # "dropped"

Received == [id \in Ids |-> transfers[id].received]

\* total_disk_bytes is what the transfers have received, while they are known:
\* an eviction frees what it counts (begin_fresh, handle_abandon, bootstrap).
TotalIsReceived == total = SumFunctionOnSet(Received, Live)

\* A transfer marked complete is the file its caller described, through failed
\* writes, a restart and a torn file.  (load_recovered_transfer marks a torn file
\* incomplete in memory and leaves the sidecar: what is written to it next counts
\* as complete after another restart, until a Begin verifies it.)
CompleteIsVerified ==
  crashes < 2 =>
    \A id \in Ids :
      transfers[id].complete /\ partial[id].exists
        => Matches(partial[id].blocks, transfers[id].sha)

\* Until a write has failed, the offset a Begin resumes at lies within the file,
\* after restarts and torn files too (load_recovered_transfer).
ResumeWithinFile ==
  faults = 0 =>
    \A id \in Live : partial[id].exists => transfers[id].received <= Len(partial[id].blocks)

\* A caller told that its file is complete finds the file it described.
AnsweredByVerifiedFile ==
  [][\A c \in DOMAIN answer :
       answer[c] # "complete" /\ answer'[c] = "complete"
         => LET id == seal[c].id IN
            partial[id].exists /\ Matches(partial[id].blocks, transfers[id].sha)]_vars

\* Every caller that waits for a seal is answered.
CallersAnswered ==
  \A c \in Call : (c \in DOMAIN answer /\ answer[c] = "waiting")
                    ~> (c \in DOMAIN answer /\ answer[c] # "waiting")
=============================================================================
