------------------------- MODULE TransferStoreProofs -------------------------
(***************************************************************************)
(* Theorems about TransferStore, for any ids, blocks, artifacts, chunks and *)
(* budget, and any number of calls, failed writes and restarts.            *)
(***************************************************************************)
EXTENDS TransferStore, SequenceTheorems, SumLemmas, TLAPS

TransferMeta == [exists : BOOLEAN, size : Nat, sha : Content \union {NoHash}, complete : BOOLEAN]
TransferFile == [exists : BOOLEAN, blocks : Content]
Seal == [kind : {"hash", "verify"}, id : Ids, stage : {"running", "hashed", "finished"},
         digest : Content \union {IoError}]
FreshCall == [busy : BOOLEAN, id : Ids, size : Nat, sha : Content \union {NoHash},
              call : Call \union {NoCall}]

\* The parts of TypeOK.
MemoryType ==
  /\ transfers \in [Ids -> Transfer]
  /\ total \in Nat
  /\ booting \subseteq Ids
PendingType ==
  /\ completing \in [Ids -> Call \union {NoCall}]
  /\ verifying \in [Ids -> Call \union {NoCall}]
DiskType ==
  /\ partial \in [Ids -> TransferFile]
  /\ meta \in [Ids -> TransferMeta]
SealType == seal \in Seq(Seal)
AnswerType == answer \in Seq(Answers)
CountType == faults \in Nat /\ crashes \in Nat

LEMMA TypeParts ==
  /\ TypeOK <=> /\ MemoryType /\ PendingType /\ DiskType /\ SealType /\ AnswerType /\ CountType
                /\ fresh \in FreshCall
  /\ TypeOK' <=> /\ MemoryType' /\ PendingType' /\ DiskType' /\ SealType' /\ AnswerType' /\ CountType'
                 /\ fresh' \in FreshCall
BY DEF TypeOK, MemoryType, PendingType, DiskType, SealType, AnswerType, CountType,
       TransferMeta, TransferFile, Seal, FreshCall

-----------------------------------------------------------------------------
(* The operators of the model.                                               *)

\* A function over the indices of a sequence is a sequence as long.
LEMMA SameLength ==
  ASSUME NEW S, NEW q \in Seq(S), NEW T, NEW r \in [DOMAIN q -> T]
  PROVE  r \in Seq(T) /\ Len(r) = Len(q) /\ DOMAIN r = DOMAIN q
<1>1. Len(q) \in Nat /\ DOMAIN q = 1..Len(q)
  BY LenProperties
<1>2. r \in [1..Len(q) -> T]
  BY <1>1
<1>3. r \in Seq(T)
  BY <1>1, <1>2, SeqDef
<1>4. DOMAIN r = 1..Len(r) /\ Len(r) \in Nat
  BY <1>3, LenProperties
<1>5. DOMAIN r = 1..Len(q)
  BY <1>2
<1>6. Len(r) = Len(q)
  BY <1>1, <1>4, <1>5
<1> QED
  BY <1>1, <1>3, <1>5, <1>6

LEMMA SameDomain ==
  ASSUME NEW S, NEW q \in Seq(S), NEW T, NEW r \in Seq(T), DOMAIN r = DOMAIN q
  PROVE  Len(r) = Len(q)
<1>1. r \in [DOMAIN q -> T]
  BY LenProperties
<1> QED
  BY <1>1, SameLength

\* Settling a call answers it, and nobody else.
LEMMA SettledAnswers ==
  ASSUME NEW ans \in Seq(Answers), NEW c \in Call \union {NoCall}, NEW what \in Answers
  PROVE  /\ Settled(ans, c, what) \in Seq(Answers)
         /\ Len(Settled(ans, c, what)) = Len(ans)
         /\ DOMAIN Settled(ans, c, what) = DOMAIN ans
         /\ \A d \in DOMAIN ans : d # c => Settled(ans, c, what)[d] = ans[d]
         /\ c \in DOMAIN ans => Settled(ans, c, what)[c] = what
<1>1. DOMAIN ans = 1..Len(ans) /\ Len(ans) \in Nat
  BY LenProperties
<1>2. CASE c = NoCall
  BY <1>1, <1>2 DEF Settled, NoCall
<1>3. CASE c # NoCall
  <2> DEFINE r == Settled(ans, c, what)
  <2>1. r = [ans EXCEPT ![c] = what]
    BY <1>3 DEF Settled
  <2>2. /\ \A d \in DOMAIN ans : d # c => r[d] = ans[d]
        /\ c \in DOMAIN ans => r[c] = what
    BY <2>1
  <2>3. ans \in [DOMAIN ans -> Answers]
    BY <1>1, LenProperties
  <2>4. r \in [DOMAIN ans -> Answers]
    BY <2>1, <2>3
  <2> HIDE DEF r
  <2>5. r \in Seq(Answers) /\ Len(r) = Len(ans) /\ DOMAIN r = DOMAIN ans
    BY <2>4, SameLength
  <2> QED
    BY <2>2, <2>5 DEF r
<1> QED
  BY <1>2, <1>3

\* Settling two calls.
LEMMA SettledTwice ==
  ASSUME NEW ans \in Seq(Answers), NEW c \in Call \union {NoCall}, NEW d \in Call \union {NoCall},
         NEW what \in Answers
  PROVE  LET twice == Settled(Settled(ans, c, what), d, what) IN
         /\ twice \in Seq(Answers) /\ Len(twice) = Len(ans) /\ DOMAIN twice = DOMAIN ans
         /\ \A e \in DOMAIN ans : e \notin {c, d} => twice[e] = ans[e]
<1>1. \A once \in Seq(Answers) :
        /\ Settled(once, d, what) \in Seq(Answers)
        /\ Len(Settled(once, d, what)) = Len(once)
        /\ DOMAIN Settled(once, d, what) = DOMAIN once
        /\ \A e \in DOMAIN once : e # d => Settled(once, d, what)[e] = once[e]
  <2> TAKE once \in Seq(Answers)
  <2> QED
    BY SettledAnswers
<1>2. /\ Settled(ans, c, what) \in Seq(Answers)
      /\ Len(Settled(ans, c, what)) = Len(ans)
      /\ DOMAIN Settled(ans, c, what) = DOMAIN ans
      /\ \A e \in DOMAIN ans : e # c => Settled(ans, c, what)[e] = ans[e]
      /\ c \in DOMAIN ans => Settled(ans, c, what)[c] = what
  BY SettledAnswers
<1> QED
  BY <1>1, <1>2

\* Cutting a file.
LEMMA TornFile ==
  ASSUME NEW f \in TransferFile, NEW n \in 0..Len(f.blocks)
  PROVE  /\ Torn(f, n) \in TransferFile
         /\ Torn(f, n).exists = f.exists
         /\ Torn(f, n).blocks = SubSeq(f.blocks, 1, n)
         /\ Len(Torn(f, n).blocks) = n
         /\ n = Len(f.blocks) => Torn(f, n) = f
<1>1. f.blocks \in Seq(Blocks) /\ Len(f.blocks) \in Nat /\ n \in Nat /\ n <= Len(f.blocks)
  BY LenProperties DEF TransferFile, Content
<1>2. \A i \in 1..n : f.blocks[i] \in Blocks
  BY <1>1, ElementOfSeq
<1>3. SubSeq(f.blocks, 1, n) \in Seq(Blocks) /\ Len(SubSeq(f.blocks, 1, n)) = n
  BY <1>1, <1>2, SubSeqProperties
<1>4. n = Len(f.blocks) => SubSeq(f.blocks, 1, n) = f.blocks
  BY <1>1
<1>5. f = [exists |-> f.exists, blocks |-> f.blocks] /\ f.exists \in BOOLEAN
  BY DEF TransferFile
<1> DEFINE cut == SubSeq(f.blocks, 1, n)
<1>6. Torn(f, n) = [f EXCEPT !.blocks = cut]
  BY DEF Torn
<1> HIDE DEF cut
<1>7. Torn(f, n) = [exists |-> f.exists, blocks |-> cut]
  BY <1>5, <1>6
<1> QED
  BY <1>3, <1>4, <1>5, <1>7 DEF TransferFile, Content, cut

\* The records a step puts into the maps.
LEMMA RecordTypes ==
  /\ Absent \in Transfer /\ Missing \in TransferFile /\ NoMeta \in TransferMeta
  /\ Idle \in FreshCall
  /\ \A t \in Transfer : Meta(t) \in TransferMeta
<1>1. <<>> \in Content
  BY DEF Content
<1>2. (CHOOSE id \in Ids : TRUE) \in Ids
  BY StoreAssumption
<1> QED
  BY <1>1, <1>2 DEF Absent, Transfer, Missing, TransferFile, NoMeta, TransferMeta, Idle,
     FreshCall, Meta, NoCall

\* A step that starts a seal adds it, and a waiting answer.
LEMMA SealStarted ==
  ASSUME SealType, NEW kind \in {"hash", "verify"}, NEW id \in Ids,
         NEW settled \in Seq(Answers), StartSeal(kind, id, settled)
  PROVE  /\ SealType' /\ AnswerType'
         /\ Len(seal') = Len(seal) + 1 /\ Len(seal') \in Call /\ Len(seal') # NoCall
         /\ Len(answer') = Len(settled) + 1
         /\ DOMAIN seal' = DOMAIN seal \union {Len(seal')}
         /\ DOMAIN answer' = DOMAIN settled \union {Len(answer')}
         /\ \A c \in DOMAIN seal : seal'[c] = seal[c]
         /\ \A c \in DOMAIN settled : answer'[c] = settled[c]
         /\ seal'[Len(seal')] = [kind |-> kind, id |-> id, stage |-> "running", digest |-> IoError]
         /\ answer'[Len(answer')] = "waiting"
<1> DEFINE new == [kind |-> kind, id |-> id, stage |-> "running", digest |-> IoError]
<1>1. new \in Seal
  BY DEF Seal
<1>2. seal' = Append(seal, new) /\ answer' = Append(settled, "waiting") /\ Len(seal) < MaxCalls
  BY DEF StartSeal
<1>3. "waiting" \in Answers
  BY DEF Answers
<1> HIDE DEF new
<1>4. Len(seal) \in Nat /\ DOMAIN seal = 1..Len(seal)
  BY LenProperties DEF SealType
<1>5. Len(settled) \in Nat /\ DOMAIN settled = 1..Len(settled)
  BY LenProperties
<1>6. /\ seal' \in Seq(Seal) /\ Len(seal') = Len(seal) + 1
      /\ \A c \in 1..Len(seal) : seal'[c] = seal[c]
      /\ seal'[Len(seal) + 1] = new
  BY <1>1, <1>2, AppendProperties DEF SealType
<1>7. /\ answer' \in Seq(Answers) /\ Len(answer') = Len(settled) + 1
      /\ \A c \in 1..Len(settled) : answer'[c] = settled[c]
      /\ answer'[Len(settled) + 1] = "waiting"
  BY <1>2, <1>3, AppendProperties
<1>8. DOMAIN seal' = 1..(Len(seal) + 1) /\ DOMAIN answer' = 1..(Len(settled) + 1)
  BY <1>6, <1>7, LenProperties
<1>9. Len(seal') \in Call /\ Len(seal') # NoCall
  BY <1>2, <1>4, <1>6, StoreAssumption DEF Call, NoCall
<1> QED
  BY <1>4, <1>5, <1>6, <1>7, <1>8, <1>9 DEF SealType, AnswerType, new

\* A step that finishes a seal changes the stage of that seal only.
LEMMA SealFinished ==
  ASSUME SealType, NEW c \in DOMAIN seal, Finished(c)
  PROVE  /\ SealType' /\ Len(seal') = Len(seal) /\ DOMAIN seal' = DOMAIN seal
         /\ seal'[c].stage = "finished"
         /\ \A d \in DOMAIN seal : /\ seal'[d].id = seal[d].id /\ seal'[d].kind = seal[d].kind
                                   /\ seal'[d].digest = seal[d].digest
                                   /\ d # c => seal'[d].stage = seal[d].stage
<1>1. seal \in [DOMAIN seal -> Seal]
  BY LenProperties DEF SealType
<1>2. seal' = [seal EXCEPT ![c] = [seal[c] EXCEPT !.stage = "finished"]]
  BY DEF Finished
<1>3. seal' \in [DOMAIN seal -> Seal]
  BY <1>1, <1>2 DEF Seal
<1>4. SealType' /\ Len(seal') = Len(seal) /\ DOMAIN seal' = DOMAIN seal
  BY <1>3, SameLength DEF SealType
<1> QED
  BY <1>1, <1>2, <1>4 DEF Seal

\* What dropping a transfer leaves.
LEMMA Dropped ==
  ASSUME TypeOK, NEW id \in Ids, Drop(id, answer)
  PROVE  /\ MemoryType /\ UNCHANGED booting => MemoryType'
         /\ PendingType' /\ DiskType' /\ AnswerType'
         /\ Len(answer') = Len(answer)
         /\ \A c \in DOMAIN answer : c \notin {completing[id], verifying[id]} => answer'[c] = answer[c]
<1> USE TypeParts
<1>1. transfers[id] \in Transfer
  BY DEF MemoryType
<1>2. Remaining(transfers[id]) \in Nat
  BY <1>1 DEF Remaining, Transfer, MemoryType
<1>3. MemoryType /\ UNCHANGED booting => MemoryType'
  BY <1>2, RecordTypes DEF Drop, MemoryType
<1>4. PendingType' /\ DiskType'
  BY RecordTypes DEF Drop, PendingType, DiskType
<1>5. completing[id] \in Call \union {NoCall} /\ verifying[id] \in Call \union {NoCall}
  BY DEF PendingType
<1>6. "abandoned" \in Answers /\ answer \in Seq(Answers)
  BY DEF Answers, AnswerType
<1>7. LET twice == Settled(Settled(answer, completing[id], "abandoned"), verifying[id], "abandoned") IN
      /\ twice \in Seq(Answers) /\ Len(twice) = Len(answer) /\ DOMAIN twice = DOMAIN answer
      /\ \A c \in DOMAIN answer : c \notin {completing[id], verifying[id]} => twice[c] = answer[c]
  BY <1>5, <1>6, SettledTwice
<1>8. answer' = Settled(Settled(answer, completing[id], "abandoned"), verifying[id], "abandoned")
  BY DEF Drop
<1> QED
  BY <1>3, <1>4, <1>7, <1>8 DEF AnswerType

\* Marking a transfer complete.
LEMMA CompleteMarked ==
  ASSUME MemoryType, DiskType, CountType, NEW id \in Ids, MarkComplete(id)
  PROVE  /\ UNCHANGED <<total, booting>> => MemoryType'
         /\ UNCHANGED partial => DiskType'
         /\ faults' \in Nat
<1>1. /\ transfers[id] \in Transfer
      /\ transfers' = [transfers EXCEPT ![id] = [transfers[id] EXCEPT !.complete = TRUE]]
  BY DEF MarkComplete, MemoryType
<1>2. [transfers[id] EXCEPT !.complete = TRUE] \in Transfer
  BY <1>1 DEF Transfer
<1>3. transfers' \in [Ids -> Transfer]
  BY <1>1, <1>2 DEF MemoryType
<1>4. Meta(transfers'[id]) \in TransferMeta /\ NoMeta \in TransferMeta /\ meta[id] \in TransferMeta
  BY <1>3, RecordTypes DEF DiskType
<1>5. meta' \in [Ids -> TransferMeta]
  BY <1>4 DEF MarkComplete, DiskType
<1>6. faults' \in Nat
  BY DEF MarkComplete, CountType
<1> QED
  BY <1>3, <1>5, <1>6 DEF MemoryType, DiskType

-----------------------------------------------------------------------------
(* Types.                                                                    *)

LEMMA TypeInit == Init => TypeOK
<1> SUFFICES ASSUME Init
             PROVE  TypeOK
  OBVIOUS
<1>1. MemoryType /\ PendingType /\ DiskType /\ CountType /\ fresh \in FreshCall
  BY RecordTypes DEF Init, MemoryType, PendingType, DiskType, CountType
<1>2. SealType /\ AnswerType
  BY DEF Init, SealType, AnswerType
<1> QED
  BY <1>1, <1>2, TypeParts

\* The calls of one id.
LEMMA TypeCommands ==
  ASSUME TypeOK, NEW id \in Ids, Commands(id)
  PROVE  TypeOK'
<1> USE TypeParts
<1>a. transfers[id] \in Transfer /\ partial[id] \in TransferFile
  BY DEF MemoryType, DiskType
<1>1. CASE Abandon(id)
  <2>1. Drop(id, answer) /\ UNCHANGED <<booting, fresh, seal, faults, crashes>>
    BY <1>1 DEF Abandon
  <2>2. MemoryType' /\ PendingType' /\ DiskType' /\ AnswerType'
    BY <2>1, Dropped
  <2> QED
    BY <2>1, <2>2 DEF SealType, CountType
<1>2. CASE BeginVerify(id)
  <2>1. StartSeal("verify", id, answer) /\ verifying' = [verifying EXCEPT ![id] = Len(seal')]
    BY <1>2 DEF BeginVerify
  <2>2. SealType' /\ AnswerType' /\ Len(seal') \in Call
    BY <2>1, SealStarted DEF AnswerType
  <2>3. PendingType'
    BY <1>2, <2>1, <2>2 DEF BeginVerify, PendingType
  <2>4. MemoryType' /\ DiskType' /\ CountType' /\ fresh' = fresh
    BY <1>2 DEF BeginVerify, MemoryType, DiskType, CountType, disk
  <2> QED
    BY <2>2, <2>3, <2>4
<1>3. CASE Take(id)
  <2>1. DiskType'
    BY <1>3, RecordTypes DEF Take, DiskType
  <2>2. MemoryType' /\ PendingType' /\ SealType' /\ AnswerType' /\ CountType' /\ fresh' = fresh
    BY <1>3 DEF Take, MemoryType, PendingType, SealType, AnswerType, CountType, memory
  <2> QED
    BY <2>1, <2>2
<1>4. ASSUME NEW a \in Artifacts, BeginFresh(id, a)
      PROVE  TypeOK'
  <2>1. a.size \in Nat /\ a.sha \in Content \union {NoHash}
    BY StoreAssumption
  <2>2. fresh' \in FreshCall
    BY <1>4, <2>1 DEF BeginFresh, FreshCall
  <2>3. MemoryType' /\ PendingType' /\ DiskType' /\ SealType' /\ AnswerType' /\ CountType'
    BY <1>4 DEF BeginFresh, MemoryType, PendingType, DiskType, SealType, AnswerType, CountType,
       memory, disk
  <2> QED
    BY <2>2, <2>3
<1>5. ASSUME NEW blocks \in Chunks, AcceptChunk(id, blocks)
      PROVE  TypeOK'
  <2>1. blocks \in Content /\ Len(blocks) \in Nat
    BY StoreAssumption, LenProperties DEF Content
  <2> DEFINE received == transfers[id].received + Len(blocks)
  <2>2. received \in Nat
    BY <1>a, <2>1 DEF Transfer
  <2>3. MemoryType'
    <3> DEFINE t == [transfers[id] EXCEPT !.received = received]
    <3>1. t \in Transfer
      BY <1>a, <2>2 DEF Transfer
    <3>2. transfers' = [transfers EXCEPT ![id] = t] /\ total' = total + Len(blocks)
          /\ booting' = booting
      BY <1>5 DEF AcceptChunk
    <3> HIDE DEF t
    <3> QED
      BY <2>1, <3>1, <3>2 DEF MemoryType
  <2>4. DiskType'
    <3>1. partial[id].blocks \o blocks \in Content
      BY <1>a, <2>1, ConcatProperties DEF TransferFile, Content
    <3> QED
      BY <1>5, <3>1 DEF AcceptChunk, DiskType, TransferFile
  <2>5. SealType' /\ AnswerType' /\ PendingType'
    <3>1. CASE received < transfers[id].size
      BY <1>5, <3>1 DEF AcceptChunk, SealType, AnswerType, PendingType
    <3>2. CASE ~ (received < transfers[id].size)
      <4> DEFINE settled == Settled(answer, completing[id], "dropped")
      <4>1. StartSeal("hash", id, settled) /\ completing' = [completing EXCEPT ![id] = Len(seal')]
            /\ UNCHANGED verifying
        BY <1>5, <3>2 DEF AcceptChunk
      <4>2. "dropped" \in Answers /\ completing[id] \in Call \union {NoCall}
        BY DEF Answers, PendingType
      <4>3. settled \in Seq(Answers)
        BY <4>2, SettledAnswers DEF AnswerType
      <4> HIDE DEF settled
      <4>4. SealType' /\ AnswerType' /\ Len(seal') \in Call
        BY <4>1, <4>3, SealStarted
      <4> QED
        BY <4>1, <4>4 DEF PendingType
    <3> QED
      BY <3>1, <3>2
  <2>6. CountType' /\ fresh' = fresh
    BY <1>5 DEF AcceptChunk, CountType
  <2> QED
    BY <2>3, <2>4, <2>5, <2>6
<1>6. ASSUME NEW blocks \in Chunks, FailChunk(id, blocks)
      PROVE  TypeOK'
  <2>1. blocks \in Content /\ Len(blocks) \in Nat
    BY StoreAssumption, LenProperties DEF Content
  <2>2. DiskType'
    <3>1. PICK n \in 0..Len(blocks) :
            partial' = [partial EXCEPT ![id].blocks = @ \o SubSeq(blocks, 1, n)]
      BY <1>6 DEF FailChunk
    <3>2. SubSeq(blocks, 1, n) \in Content
      <4>1. \A i \in 1..n : blocks[i] \in Blocks
        BY <2>1, ElementOfSeq DEF Content
      <4> QED
        BY <2>1, <4>1, SubSeqProperties DEF Content
    <3> DEFINE written == SubSeq(blocks, 1, n)
    <3> HIDE DEF written
    <3>3. partial[id].blocks \o written \in Content
      BY <1>a, <3>2, ConcatProperties DEF TransferFile, Content, written
    <3>4. partial' = [partial EXCEPT ![id].blocks = @ \o written]
      BY <3>1 DEF written
    <3> QED
      BY <1>6, <3>3, <3>4 DEF FailChunk, DiskType, TransferFile
  <2>3. MemoryType'
    <3> DEFINE t == [transfers[id] EXCEPT !.received = @ + Len(blocks)]
    <3>1. t \in Transfer
      BY <1>a, <2>1 DEF Transfer
    <3>2. /\ \/ UNCHANGED <<transfers, total>>
             \/ transfers' = [transfers EXCEPT ![id] = t] /\ total' = total + Len(blocks)
          /\ booting' = booting
      BY <1>6 DEF FailChunk
    <3> HIDE DEF t
    <3> QED
      BY <2>1, <3>1, <3>2 DEF MemoryType
  <2>4. SealType' /\ AnswerType' /\ PendingType' /\ CountType' /\ fresh' = fresh
    BY <1>6 DEF FailChunk, SealType, AnswerType, PendingType, CountType
  <2> QED
    BY <2>2, <2>3, <2>4
<1> QED
  BY <1>1, <1>2, <1>3, <1>4, <1>5, <1>6 DEF Commands

\* begin_fresh, its evictions, and the ids bootstrap takes.
LEMMA TypeBegin ==
  ASSUME TypeOK,
         FinishFresh \/ FailFresh \/ \E id \in Ids : Evict(id) \/ Recover(id)
  PROVE  TypeOK'
<1> USE TypeParts
<1>a. fresh.id \in Ids /\ fresh.call \in Call \union {NoCall} /\ fresh.size \in Nat
      /\ fresh.sha \in Content \union {NoHash}
  BY DEF FreshCall
<1>b. "restarted" \in Answers /\ "io" \in Answers
  BY DEF Answers
<1>c. \A what \in {"restarted", "io"} :
        answer' = Settled(answer, fresh.call, what) => AnswerType'
  <2>1. answer \in Seq(Answers)
    BY DEF AnswerType
  <2> TAKE what \in {"restarted", "io"}
  <2>2. Settled(answer, fresh.call, what) \in Seq(Answers)
    BY <1>a, <1>b, <2>1, SettledAnswers
  <2> QED
    BY <2>2 DEF AnswerType
<1>d. File(<<>>) \in TransferFile
  BY DEF File, TransferFile, Content
<1>1. CASE FinishFresh
  <2> DEFINE t == [size |-> fresh.size, sha |-> fresh.sha, received |-> 0,
                   complete |-> FALSE, live |-> TRUE]
  <2>1. t \in Transfer
    BY <1>a DEF Transfer
  <2>2. /\ transfers' = [transfers EXCEPT ![fresh.id] = t]
        /\ partial' = [partial EXCEPT ![fresh.id] = File(<<>>)]
        /\ meta' = [meta EXCEPT ![fresh.id] = Meta(t)]
        /\ answer' = Settled(answer, fresh.call, "restarted")
        /\ fresh' = Idle
    BY <1>1 DEF FinishFresh
  <2> HIDE DEF t
  <2>3. MemoryType'
    <3>1. UNCHANGED <<total, booting>>
      BY <1>1 DEF FinishFresh
    <3> QED
      BY <1>a, <2>1, <2>2, <3>1 DEF MemoryType
  <2>5. DiskType'
    <3>1. Meta(t) \in TransferMeta
      BY <2>1, RecordTypes
    <3> QED
      BY <1>a, <1>d, <2>2, <3>1 DEF DiskType
  <2>4. PendingType' /\ SealType' /\ CountType'
    BY <1>1 DEF FinishFresh, PendingType, SealType, CountType
  <2> QED
    BY <1>c, <2>2, <2>3, <2>4, <2>5, RecordTypes
<1>2. CASE FailFresh
  <2>1. DiskType'
    BY <1>2, <1>a, <1>d, RecordTypes DEF FailFresh, DiskType
  <2>2. MemoryType' /\ PendingType' /\ SealType' /\ CountType'
    BY <1>2 DEF FailFresh, memory, MemoryType, PendingType, SealType, CountType
  <2>3. answer' = Settled(answer, fresh.call, "io") /\ fresh' = Idle
    BY <1>2 DEF FailFresh
  <2> QED
    BY <1>c, <2>1, <2>2, <2>3, RecordTypes
<1>3. ASSUME NEW id \in Ids, Evict(id)
      PROVE  TypeOK'
  <2>1. Drop(id, answer) /\ UNCHANGED <<booting, fresh, seal, faults, crashes>>
    BY <1>3 DEF Evict
  <2>2. MemoryType' /\ PendingType' /\ DiskType' /\ AnswerType'
    BY <2>1, Dropped
  <2> QED
    BY <2>1, <2>2 DEF SealType, CountType
<1>4. ASSUME NEW id \in Ids, Recover(id)
      PROVE  TypeOK'
  <2>1. PendingType' /\ SealType' /\ AnswerType' /\ CountType' /\ fresh' = fresh
    BY <1>4 DEF Recover, PendingType, SealType, AnswerType, CountType
  <2>2. partial[id] \in TransferFile /\ meta[id] \in TransferMeta
    BY DEF DiskType
  <2>3. MemoryType' /\ DiskType'
    <3> DEFINE kept == Least(Len(partial[id].blocks), meta[id].size)
    <3>1. CASE meta[id].exists /\ partial[id].exists
      <4>1. Len(partial[id].blocks) \in Nat /\ meta[id].size \in Nat
        BY <2>2, LenProperties DEF TransferFile, TransferMeta, Content
      <4>2. kept \in 0..Len(partial[id].blocks)
        BY <4>1 DEF Least
      <4>3. Torn(partial[id], kept) \in TransferFile
        BY <2>2, <4>2, TornFile
      <4>4. Recovered(partial[id], meta[id]) \in Transfer /\ Recovered(partial[id], meta[id]).received \in Nat
        BY <2>2, <4>1, <4>2 DEF Recovered, Transfer, TransferMeta
      <4>5. /\ transfers' = [transfers EXCEPT ![id] = Recovered(partial[id], meta[id])]
            /\ total' = total + transfers'[id].received
            /\ partial' = [partial EXCEPT ![id] = Torn(partial[id], kept)]
            /\ booting' = booting \ {id} /\ meta' = meta
        BY <1>4, <3>1 DEF Recover
      <4> HIDE DEF kept
      <4> QED
        BY <4>3, <4>4, <4>5 DEF MemoryType, DiskType
    <3>2. CASE ~ (meta[id].exists /\ partial[id].exists)
      <4>1. /\ partial' = [partial EXCEPT ![id] = Missing]
            /\ meta' = [meta EXCEPT ![id] = NoMeta]
            /\ booting' = booting \ {id}
            /\ UNCHANGED <<transfers, total>>
        BY <1>4, <3>2 DEF Recover
      <4> QED
        BY <4>1, RecordTypes DEF MemoryType, DiskType
    <3> QED
      BY <3>1, <3>2
  <2> QED
    BY <2>1, <2>3
<1> QED
  BY <1>1, <1>2, <1>3, <1>4

\* A restart.
LEMMA TypeCrash == TypeOK /\ Crash => TypeOK'
<1> SUFFICES ASSUME TypeOK, Crash
             PROVE  TypeOK'
  OBVIOUS
<1> USE TypeParts
<1>1. MemoryType' /\ PendingType' /\ fresh' \in FreshCall /\ CountType'
  BY RecordTypes DEF Crash, MemoryType, PendingType, CountType
<1>2. DiskType'
  <2>1. PICK id \in Ids : \E n \in 0..Len(partial[id].blocks) : \E left \in {meta[id], NoMeta} :
          /\ partial' = [partial EXCEPT ![id] = Torn(partial[id], n)]
          /\ meta' = [meta EXCEPT ![id] = left]
    BY DEF Crash
  <2>2. PICK n \in 0..Len(partial[id].blocks) : \E left \in {meta[id], NoMeta} :
          /\ partial' = [partial EXCEPT ![id] = Torn(partial[id], n)]
          /\ meta' = [meta EXCEPT ![id] = left]
    BY <2>1
  <2>3. Torn(partial[id], n) \in TransferFile
    BY TornFile DEF DiskType
  <2> QED
    BY <2>2, <2>3, RecordTypes DEF DiskType
<1>3. SealType'
  <2>1. seal \in [DOMAIN seal -> Seal]
    BY LenProperties DEF SealType
  <2>2. seal' \in [DOMAIN seal -> Seal]
    BY <2>1 DEF Crash, Seal
  <2> QED
    BY <2>2, SameLength DEF SealType
<1>4. AnswerType'
  <2>1. answer \in [DOMAIN answer -> Answers]
    BY LenProperties DEF AnswerType
  <2>2. answer' \in [DOMAIN answer -> Answers]
    BY <2>1 DEF Crash, Answers
  <2> QED
    BY <2>2, SameLength DEF AnswerType
<1> QED
  BY <1>1, <1>2, <1>3, <1>4

\* The seals.
LEMMA TypeSeals ==
  ASSUME TypeOK, NEW c \in DOMAIN seal, SealFile(c) \/ HashCompleted(c) \/ BeginVerified(c)
  PROVE  TypeOK'
<1> USE TypeParts
<1>a. seal \in [DOMAIN seal -> Seal]
  BY LenProperties DEF SealType
<1> DEFINE id == seal[c].id
<1>b. id \in Ids /\ seal[c] \in Seal
  BY <1>a DEF Seal
<1>c. {"io", "mismatch", "complete", "abandoned"} \subseteq Answers
  BY DEF Answers
<1>d. \A w \in Call \union {NoCall} : \A what \in {"io", "mismatch", "complete", "abandoned"} :
        answer' = Settled(answer, w, what) => AnswerType'
  BY <1>c, SettledAnswers DEF AnswerType
<1>e. completing[id] \in Call \union {NoCall} /\ verifying[id] \in Call \union {NoCall}
  BY <1>b DEF PendingType
<1>1. CASE SealFile(c)
  <2>1. MemoryType' /\ PendingType' /\ DiskType' /\ AnswerType' /\ CountType' /\ fresh' = fresh
    BY <1>1 DEF SealFile, memory, disk, MemoryType, PendingType, DiskType, AnswerType, CountType
  <2> DEFINE digest == IF partial[id].exists THEN partial[id].blocks ELSE IoError
             sealed == [seal[c] EXCEPT !.stage = "hashed", !.digest = digest]
  <2>2. digest \in Content \union {IoError}
    BY <1>b DEF DiskType, TransferFile
  <2>3. sealed \in Seal
    BY <1>b, <2>2 DEF Seal
  <2>4. seal' = [seal EXCEPT ![c] = sealed]
    BY <1>1 DEF SealFile
  <2> HIDE DEF sealed
  <2>5. seal' \in [DOMAIN seal -> Seal]
    BY <1>a, <2>3, <2>4
  <2>6. SealType'
    BY <2>5, SameLength DEF SealType
  <2> QED
    BY <2>1, <2>6
<1>2. CASE HashCompleted(c)
  <2>1. SealType'
    BY <1>2, SealFinished DEF HashCompleted
  <2>2. PendingType' /\ fresh' = fresh /\ UNCHANGED <<booting, total, partial, crashes>>
    BY <1>2 DEF HashCompleted, PendingType
  <2>3. \/ UNCHANGED <<transfers, meta, faults>>
        \/ MarkComplete(id)
    BY <1>2 DEF HashCompleted
  <2>4. MemoryType' /\ DiskType' /\ CountType'
    <3>1. CASE UNCHANGED <<transfers, meta, faults>>
      BY <2>2, <3>1 DEF MemoryType, DiskType, CountType
    <3>2. CASE MarkComplete(id)
      BY <1>b, <2>2, <3>2, CompleteMarked DEF CountType
    <3> QED
      BY <2>3, <3>1, <3>2
  <2>5. AnswerType'
    <3>1. \/ answer' = answer
          \/ answer' = Settled(answer, completing[id], "io")
          \/ answer' = Settled(answer, completing[id], "mismatch")
          \/ answer' = Settled(answer, completing[id], "complete")
      BY <1>2 DEF HashCompleted
    <3> HIDE DEF id
    <3> QED
      BY <1>d, <1>e, <3>1 DEF AnswerType
  <2> QED
    BY <2>1, <2>2, <2>4, <2>5
<1>3. CASE BeginVerified(c)
  <2>1. SealType'
    BY <1>3, SealFinished DEF BeginVerified
  <2>2. UNCHANGED <<booting, crashes>>
    BY <1>3 DEF BeginVerified
  <2>3. CASE /\ verifying' = [verifying EXCEPT ![id] = NoCall]
             /\ answer' = Settled(answer, verifying[id], "io")
             /\ UNCHANGED <<transfers, total, completing, fresh, disk, faults>>
    <3>1. AnswerType'
      BY <1>d, <1>e, <2>3
    <3> QED
      BY <2>1, <2>2, <2>3, <3>1 DEF MemoryType, PendingType, DiskType, CountType, disk
  <2>4. CASE /\ verifying' = [verifying EXCEPT ![id] = NoCall]
             /\ answer' = Settled(answer, verifying[id], "complete")
             /\ IF transfers[id].complete THEN UNCHANGED <<transfers, meta, faults>> ELSE MarkComplete(id)
             /\ UNCHANGED <<total, completing, fresh, partial>>
    <3>1. AnswerType'
      BY <1>d, <1>e, <2>4
    <3>2. MemoryType' /\ DiskType' /\ faults' \in Nat
      <4>1. CASE UNCHANGED <<transfers, meta, faults>>
        BY <2>2, <2>4, <4>1 DEF MemoryType, DiskType, CountType
      <4>2. CASE MarkComplete(id)
        BY <1>b, <2>2, <2>4, <4>2, CompleteMarked
      <4> QED
        BY <2>4, <4>1, <4>2
    <3> QED
      BY <2>1, <2>2, <2>4, <3>1, <3>2 DEF PendingType, CountType
  <2>5. CASE /\ transfers' = [transfers EXCEPT ![id] = Absent]
             /\ total' = Remaining(transfers[id])
             /\ completing' = [completing EXCEPT ![id] = NoCall]
             /\ verifying' = [verifying EXCEPT ![id] = NoCall]
             /\ partial' = [partial EXCEPT ![id] = Missing]
             /\ meta' = [meta EXCEPT ![id] = NoMeta]
             /\ answer' = Settled(answer, completing[id], "abandoned")
             /\ fresh' = [busy |-> TRUE, id |-> id, size |-> transfers[id].size,
                          sha |-> transfers[id].sha, call |-> verifying[id]]
             /\ UNCHANGED faults
    <3>1. AnswerType'
      BY <1>d, <1>e, <2>5
    <3>2. transfers[id] \in Transfer
      BY <1>b DEF MemoryType
    <3>3. total' \in Nat
      BY <2>5, <3>2 DEF Remaining, Transfer, MemoryType
    <3>4. fresh' \in FreshCall
      BY <1>b, <1>e, <2>5, <3>2 DEF FreshCall, Transfer
    <3>5. MemoryType' /\ PendingType' /\ DiskType' /\ CountType'
      BY <2>2, <2>5, <3>3, RecordTypes DEF MemoryType, PendingType, DiskType, CountType
    <3> QED
      BY <2>1, <3>1, <3>4, <3>5
  <2> QED
    BY <1>3, <2>3, <2>4, <2>5 DEF BeginVerified
<1> QED
  BY <1>1, <1>2, <1>3

\* Every step keeps the types.
LEMMA TypeStep == TypeOK /\ [Next]_vars => TypeOK'
<1> SUFFICES ASSUME TypeOK, [Next]_vars
             PROVE  TypeOK'
  OBVIOUS
<1>1. CASE UNCHANGED vars
  BY <1>1 DEF vars, TypeOK
<1>2. CASE Next
  BY <1>2, TypeCommands, TypeBegin, TypeCrash, TypeSeals DEF Next
<1> QED
  BY <1>1, <1>2

\* Every variable of the store keeps its type, whatever is called, written in
\* part or restarted (ChunkedTransferActor).
THEOREM StoreTypeCorrect == Spec => []TypeOK
BY TypeInit, TypeStep, PTL DEF Spec

-----------------------------------------------------------------------------
(* The pending acknowledgements.  PendingHasSeal alone is not inductive: that *)
(* no other answer reaches a caller rests on which seals are finished, on    *)
(* the transfer that a begin_fresh makes being new, and on bootstrap finding *)
(* no seal under way.                                                        *)

Unfinished(c) == seal[c].stage \in {"running", "hashed"}

\* Every call that waits for a seal has an answer of its own.
SealsAligned == Len(answer) = Len(seal)

\* The call that a begin_fresh answers is nowhere else pending.
FreshIsSettled ==
  fresh.call # NoCall =>
    /\ fresh.call \in DOMAIN seal
    /\ \A id \in Ids : fresh.call \notin {completing[id], verifying[id]}

\* begin_fresh runs for an id the actor does not know, after bootstrap.
FreshIsAbsent == fresh.busy => booting = {} /\ ~ transfers[fresh.id].live

\* No seal is under way before bootstrap is over, and no transfer is known
\* before its sidecar has been read.
BootIsQuiet ==
  booting # {} => /\ \A id \in booting : ~ transfers[id].live
                  /\ \A c \in DOMAIN seal : ~ Unfinished(c)

\* A transfer that a caller waits for, or that is complete, takes no more blocks.
FullWhenSettled ==
  \A id \in Ids :
    Unsettled(id) \/ transfers[id].complete => transfers[id].received = transfers[id].size

PendingInv ==
  /\ SealsAligned /\ FreshIsSettled /\ FreshIsAbsent /\ BootIsQuiet /\ FullWhenSettled
  /\ PendingHasSeal

\* AwaitsSeal after the step, of a call known after the step.
NowAwaits(c, id, kind) ==
  /\ c \in DOMAIN seal'
  /\ seal'[c].id = id /\ seal'[c].kind = kind
  /\ seal'[c].stage \in {"running", "hashed"}
  /\ answer'[c] = "waiting"

\* The step leaves call c waiting for its seal.
StillAwaits(c) ==
  /\ c \in DOMAIN seal'
  /\ seal'[c].id = seal[c].id /\ seal'[c].kind = seal[c].kind
  /\ seal'[c].stage \in {"running", "hashed"}
  /\ answer'[c] = answer[c]

LEMMA PendingNow ==
  ASSUME \A id \in Ids :
           /\ completing'[id] # NoCall \/ verifying'[id] # NoCall => transfers'[id].live
           /\ completing'[id] # NoCall => NowAwaits(completing'[id], id, "hash")
           /\ verifying'[id] # NoCall => NowAwaits(verifying'[id], id, "verify")
  PROVE  PendingHasSeal'
BY DEF PendingHasSeal, AwaitsSeal, NowAwaits

LEMMA StillAwaiting ==
  ASSUME NEW c, NEW id, NEW kind, AwaitsSeal(c, id, kind), StillAwaits(c)
  PROVE  NowAwaits(c, id, kind)
BY DEF AwaitsSeal, StillAwaits, NowAwaits

\* A step that leaves the seals, the answers and the pending calls alone.
LEMMA PendingUntouched ==
  ASSUME PendingInv, UNCHANGED <<completing, verifying, seal, answer>>,
         \A id \in Ids : transfers[id].live => transfers'[id].live
  PROVE  PendingHasSeal' /\ SealsAligned'
BY DEF PendingInv, PendingHasSeal, AwaitsSeal, SealsAligned

\* Nobody waits twice, and nobody waits for two answers.
LEMMA WaitsOnce ==
  ASSUME PendingInv, NEW i \in Ids, NEW j \in Ids
  PROVE  /\ completing[i] # NoCall /\ completing[i] = completing[j] => i = j
         /\ verifying[i] # NoCall /\ verifying[i] = verifying[j] => i = j
         /\ completing[i] # NoCall => completing[i] # verifying[j]
         /\ fresh.call # NoCall => fresh.call # completing[i] /\ fresh.call # verifying[i]
<1>1. /\ completing[i] # NoCall => AwaitsSeal(completing[i], i, "hash")
      /\ verifying[i] # NoCall => AwaitsSeal(verifying[i], i, "verify")
      /\ completing[j] # NoCall => AwaitsSeal(completing[j], j, "hash")
      /\ verifying[j] # NoCall => AwaitsSeal(verifying[j], j, "verify")
  BY DEF PendingInv, PendingHasSeal
<1>2. fresh.call # NoCall => fresh.call \notin {completing[i], verifying[i]}
  BY DEF PendingInv, FreshIsSettled
<1> QED
  BY <1>1, <1>2 DEF AwaitsSeal

\* A call that waits has an index in the answers too.
LEMMA PendingIndex ==
  ASSUME TypeOK, SealsAligned
  PROVE  DOMAIN answer = DOMAIN seal /\ NoCall \notin DOMAIN seal
<1>1. DOMAIN answer = 1..Len(answer) /\ DOMAIN seal = 1..Len(seal)
  BY TypeParts, LenProperties DEF SealType, AnswerType
<1> QED
  BY <1>1 DEF SealsAligned, NoCall

LEMMA PendingInit == Init => PendingInv
BY RecordTypes DEF Init, PendingInv, SealsAligned, FreshIsSettled, FreshIsAbsent, BootIsQuiet,
   FullWhenSettled, PendingHasSeal, Idle, Unsettled, Absent, Unfinished

\* Abandon, and an eviction.
LEMMA PendingDrop ==
  ASSUME TypeOK, PendingInv, NEW id \in Ids,
         Drop(id, answer), UNCHANGED <<booting, fresh, seal>>
  PROVE  PendingInv'
<1> USE DEF PendingInv
<1>1. /\ transfers' = [transfers EXCEPT ![id] = Absent]
      /\ completing' = [completing EXCEPT ![id] = NoCall]
      /\ verifying' = [verifying EXCEPT ![id] = NoCall]
      /\ answer' = Settled(Settled(answer, completing[id], "abandoned"), verifying[id], "abandoned")
  BY DEF Drop
<1>2. /\ transfers \in [Ids -> Transfer]
      /\ completing \in [Ids -> Call \union {NoCall}] /\ verifying \in [Ids -> Call \union {NoCall}]
      /\ answer \in Seq(Answers)
  BY TypeParts DEF MemoryType, PendingType, AnswerType
<1>3. /\ transfers'[id] = Absent /\ completing'[id] = NoCall /\ verifying'[id] = NoCall
      /\ \A j \in Ids \ {id} : /\ transfers'[j] = transfers[j] /\ completing'[j] = completing[j]
                               /\ verifying'[j] = verifying[j]
  BY <1>1, <1>2
<1>4. /\ Len(answer') = Len(answer)
      /\ \A c \in DOMAIN answer : c \notin {completing[id], verifying[id]} => answer'[c] = answer[c]
  BY Dropped
<1>5. SealsAligned' /\ FreshIsSettled'
  BY <1>3, <1>4 DEF SealsAligned, FreshIsSettled
<1>6. ~ Absent.live /\ ~ Absent.complete
  BY DEF Absent
<1>7. FreshIsAbsent' /\ BootIsQuiet'
  <2>1. fresh.id \in Ids /\ booting \subseteq Ids
    BY TypeParts DEF FreshCall, MemoryType
  <2> QED
    BY <1>3, <1>6, <2>1 DEF FreshIsAbsent, BootIsQuiet, Unfinished
<1>8. FullWhenSettled'
  BY <1>3, <1>6 DEF FullWhenSettled, Unsettled
<1>9. PendingHasSeal'
  <2> SUFFICES ASSUME NEW j \in Ids
               PROVE  /\ completing'[j] # NoCall \/ verifying'[j] # NoCall => transfers'[j].live
                      /\ completing'[j] # NoCall => NowAwaits(completing'[j], j, "hash")
                      /\ verifying'[j] # NoCall => NowAwaits(verifying'[j], j, "verify")
    BY PendingNow
  <2>1. CASE j = id
    BY <1>3, <2>1
  <2>2. CASE j # id
    <3>1. /\ completing[j] # NoCall \/ verifying[j] # NoCall => transfers[j].live
          /\ completing[j] # NoCall => AwaitsSeal(completing[j], j, "hash")
          /\ verifying[j] # NoCall => AwaitsSeal(verifying[j], j, "verify")
      BY DEF PendingHasSeal
    <3>2. \A c \in {completing[j], verifying[j]} :
            c # NoCall => c \notin {completing[id], verifying[id]}
      BY <2>2, WaitsOnce
    <3>3. \A c \in DOMAIN seal : c \notin {completing[id], verifying[id]} /\ Unfinished(c) => StillAwaits(c)
      BY <1>4, PendingIndex DEF StillAwaits, Unfinished
    <3>4. /\ completing[j] # NoCall => StillAwaits(completing[j])
          /\ verifying[j] # NoCall => StillAwaits(verifying[j])
      BY <3>1, <3>2, <3>3 DEF AwaitsSeal, Unfinished
    <3> QED
      BY <1>3, <2>2, <3>1, <3>4, StillAwaiting
  <2> QED
    BY <2>1, <2>2
<1> QED
  BY <1>5, <1>7, <1>8, <1>9

\* A chunk, which may start a seal, and a Begin that verifies.
LEMMA PendingStart ==
  ASSUME TypeOK, PendingInv, NEW id \in Ids,
         BeginVerify(id) \/ \E blocks \in Chunks : AcceptChunk(id, blocks)
  PROVE  PendingInv'
<1> USE DEF PendingInv
<1>a. /\ ~ fresh.busy /\ booting = {} /\ transfers[id].live
      /\ UNCHANGED <<fresh, booting>>
  BY DEF BeginVerify, AcceptChunk, Acceptable, Ready
<1>b. /\ transfers \in [Ids -> Transfer]
      /\ completing \in [Ids -> Call \union {NoCall}] /\ verifying \in [Ids -> Call \union {NoCall}]
      /\ answer \in Seq(Answers) /\ SealType
  BY TypeParts DEF MemoryType, PendingType, AnswerType
<1>c. DOMAIN answer = DOMAIN seal /\ NoCall \notin DOMAIN seal
  BY PendingIndex
<1>d. FreshIsAbsent' /\ BootIsQuiet'
  BY <1>a DEF FreshIsAbsent, BootIsQuiet
<1>e. DOMAIN seal = 1..Len(seal) /\ Len(seal) \in Nat /\ Len(answer) = Len(seal)
  BY <1>b, LenProperties DEF SealType, SealsAligned
\* The step starts a seal for the new call n.
<1> DEFINE Starts(kind, pending, settled) ==
             /\ SealsAligned' /\ Len(seal') \notin DOMAIN seal /\ Len(seal') # NoCall
             /\ NowAwaits(Len(seal'), id, kind)
             /\ \A c \in DOMAIN seal : c # pending /\ Unfinished(c) => StillAwaits(c)
             /\ DOMAIN seal \subseteq DOMAIN seal'
<1>f. \A kind \in {"hash", "verify"} : \A pending \in Call \union {NoCall} :
      \A settled \in Seq(Answers) :
        /\ StartSeal(kind, id, settled) /\ Len(settled) = Len(answer)
        /\ \A c \in DOMAIN answer : c # pending => settled[c] = answer[c]
        => Starts(kind, pending, settled)
  <2> SUFFICES ASSUME NEW kind \in {"hash", "verify"}, NEW pending \in Call \union {NoCall},
                      NEW settled \in Seq(Answers),
                      StartSeal(kind, id, settled), Len(settled) = Len(answer),
                      \A c \in DOMAIN answer : c # pending => settled[c] = answer[c]
               PROVE  Starts(kind, pending, settled)
    OBVIOUS
  <2>1. /\ Len(seal') = Len(seal) + 1 /\ Len(seal') # NoCall
        /\ Len(answer') = Len(settled) + 1
        /\ DOMAIN seal' = DOMAIN seal \union {Len(seal')}
        /\ \A c \in DOMAIN seal : seal'[c] = seal[c]
        /\ \A c \in DOMAIN settled : answer'[c] = settled[c]
        /\ seal'[Len(seal')] = [kind |-> kind, id |-> id, stage |-> "running", digest |-> IoError]
        /\ answer'[Len(answer')] = "waiting"
    BY <1>b, SealStarted
  <2>2. DOMAIN settled = DOMAIN answer
    BY <1>b, LenProperties
  <2>3. Len(answer') = Len(seal')
    BY <1>e, <2>1
  <2>4. Len(seal') \notin DOMAIN seal
    BY <1>e, <2>1
  <2>5. NowAwaits(Len(seal'), id, kind)
    BY <2>1, <2>3 DEF NowAwaits
  <2>6. \A c \in DOMAIN seal : c # pending /\ Unfinished(c) => StillAwaits(c)
    BY <1>c, <2>1, <2>2 DEF StillAwaits, Unfinished
  <2> QED
    BY <2>1, <2>3, <2>4, <2>5, <2>6 DEF SealsAligned
<1>g. \A j \in Ids :
        /\ completing[j] # NoCall \/ verifying[j] # NoCall => transfers[j].live
        /\ completing[j] # NoCall => AwaitsSeal(completing[j], j, "hash") /\ Unfinished(completing[j])
        /\ verifying[j] # NoCall => AwaitsSeal(verifying[j], j, "verify") /\ Unfinished(verifying[j])
        /\ completing[j] # NoCall => completing[j] \in DOMAIN seal
        /\ verifying[j] # NoCall => verifying[j] \in DOMAIN seal
  BY DEF PendingHasSeal, AwaitsSeal, Unfinished
<1>1. CASE BeginVerify(id)
  <2>1. /\ StartSeal("verify", id, answer) /\ UNCHANGED <<transfers, completing>>
        /\ verifying' = [verifying EXCEPT ![id] = Len(seal')]
        /\ transfers[id].complete \/ transfers[id].received = transfers[id].size
    BY <1>1 DEF BeginVerify
  <2>2. Starts("verify", NoCall, answer)
    BY <1>b, <1>f, <2>1
  <2> HIDE DEF Starts
  <2>3. \A j \in Ids : verifying'[j] = IF j = id THEN Len(seal') ELSE verifying[j]
    BY <1>b, <2>1
  <2>4. SealsAligned' /\ FreshIsSettled'
    BY <1>a, <2>1, <2>2, <2>3 DEF FreshIsSettled, Starts
  <2>5. FullWhenSettled'
    BY <2>1, <2>3 DEF FullWhenSettled, Unsettled
  <2>6. PendingHasSeal'
    <3> SUFFICES ASSUME NEW j \in Ids
                 PROVE  /\ completing'[j] # NoCall \/ verifying'[j] # NoCall => transfers'[j].live
                        /\ completing'[j] # NoCall => NowAwaits(completing'[j], j, "hash")
                        /\ verifying'[j] # NoCall => NowAwaits(verifying'[j], j, "verify")
      BY PendingNow
    <3>1. completing[j] # NoCall => StillAwaits(completing[j])
      BY <1>g, <2>2 DEF Starts
    <3>2. verifying[j] # NoCall => StillAwaits(verifying[j])
      BY <1>g, <2>2 DEF Starts
    <3>3. completing[j] # NoCall => NowAwaits(completing[j], j, "hash")
      BY <1>g, <3>1, StillAwaiting
    <3>4. verifying[j] # NoCall => NowAwaits(verifying[j], j, "verify")
      BY <1>g, <3>2, StillAwaiting
    <3> QED
      BY <1>a, <1>g, <2>1, <2>2, <2>3, <3>3, <3>4 DEF Starts
  <2> QED
    BY <1>d, <2>4, <2>5, <2>6
<1>2. ASSUME NEW blocks \in Chunks, AcceptChunk(id, blocks)
      PROVE  PendingInv'
  <2> DEFINE received == transfers[id].received + Len(blocks)
  <2>1. /\ received <= transfers[id].size /\ Len(blocks) \in Nat
        /\ transfers[id] \in Transfer /\ received \in Nat
    BY <1>2, <1>b, StoreAssumption, LenProperties DEF AcceptChunk, Acceptable, Content, Transfer
  <2>2. /\ transfers' = [transfers EXCEPT ![id].received = received] /\ UNCHANGED verifying
        /\ IF received < transfers[id].size
           THEN UNCHANGED <<completing, seal, answer>>
           ELSE /\ StartSeal("hash", id, Settled(answer, completing[id], "dropped"))
                /\ completing' = [completing EXCEPT ![id] = Len(seal')]
    BY <1>2 DEF AcceptChunk
  <2>3. /\ \A j \in Ids : /\ transfers'[j].live = transfers[j].live
                          /\ transfers'[j].size = transfers[j].size
                          /\ transfers'[j].complete = transfers[j].complete
                          /\ j # id => transfers'[j].received = transfers[j].received
        /\ transfers'[id].received = received
    BY <1>b, <2>2 DEF Transfer
  <2> HIDE DEF received
  <2>4. CASE received < transfers[id].size
    <3>1. PendingHasSeal' /\ SealsAligned'
      BY <2>2, <2>3, <2>4, PendingUntouched
    <3>2. FreshIsSettled'
      BY <1>a, <2>2, <2>4 DEF FreshIsSettled
    <3>3. ~ Unsettled(id) /\ ~ transfers[id].complete
      BY <2>1, <2>4 DEF FullWhenSettled, received, Transfer
    <3>4. FullWhenSettled'
      BY <2>2, <2>3, <2>4, <3>3 DEF FullWhenSettled, Unsettled
    <3> QED
      BY <1>d, <3>1, <3>2, <3>4
  <2>5. CASE ~ (received < transfers[id].size)
    <3> DEFINE settled == Settled(answer, completing[id], "dropped")
    <3>1. "dropped" \in Answers /\ completing[id] \in Call \union {NoCall}
      BY <1>b DEF Answers
    <3>2. /\ settled \in Seq(Answers) /\ Len(settled) = Len(answer)
          /\ \A c \in DOMAIN answer : c # completing[id] => settled[c] = answer[c]
      BY <1>b, <3>1, SettledAnswers
    <3>3. /\ StartSeal("hash", id, settled) /\ completing' = [completing EXCEPT ![id] = Len(seal')]
      BY <2>2, <2>5
    <3> HIDE DEF settled
    <3>4. Starts("hash", completing[id], settled)
      BY <1>f, <3>1, <3>2, <3>3
    <3> HIDE DEF Starts
    <3>5. \A j \in Ids : completing'[j] = IF j = id THEN Len(seal') ELSE completing[j]
      BY <1>b, <3>3
    <3>6. SealsAligned' /\ FreshIsSettled'
      BY <1>a, <2>2, <3>4, <3>5 DEF FreshIsSettled, Starts
    <3>7. received = transfers[id].size
      BY <2>1, <2>5 DEF Transfer
    <3>8. FullWhenSettled'
      BY <2>2, <2>3, <3>5, <3>7 DEF FullWhenSettled, Unsettled
    <3>9. PendingHasSeal'
      <4> SUFFICES ASSUME NEW j \in Ids
                   PROVE  /\ completing'[j] # NoCall \/ verifying'[j] # NoCall => transfers'[j].live
                          /\ completing'[j] # NoCall => NowAwaits(completing'[j], j, "hash")
                          /\ verifying'[j] # NoCall => NowAwaits(verifying'[j], j, "verify")
        BY PendingNow
      <4>1. j # id /\ completing[j] # NoCall => StillAwaits(completing[j])
        BY <1>g, <3>4, WaitsOnce DEF Starts
      <4>2. verifying[j] # NoCall => StillAwaits(verifying[j])
        BY <1>g, <3>4, WaitsOnce DEF Starts
      <4>3. j # id /\ completing[j] # NoCall => NowAwaits(completing[j], j, "hash")
        BY <1>g, <4>1, StillAwaiting
      <4>4. verifying[j] # NoCall => NowAwaits(verifying[j], j, "verify")
        BY <1>g, <4>2, StillAwaiting
      <4> QED
        BY <1>a, <1>g, <2>2, <2>3, <3>4, <3>5, <4>3, <4>4 DEF Starts
    <3> QED
      BY <1>d, <3>6, <3>8, <3>9
  <2> QED
    BY <2>4, <2>5
<1> QED
  BY <1>1, <1>2

\* The calls that start no seal: a move of the file, a begin of an unknown id, a
\* failed write, and bootstrap.
LEMMA PendingQuiet ==
  ASSUME TypeOK, PendingInv, NEW id \in Ids,
         \/ Take(id) \/ Recover(id)
         \/ \E a \in Artifacts : BeginFresh(id, a)
         \/ \E blocks \in Chunks : FailChunk(id, blocks)
  PROVE  PendingInv'
<1> USE DEF PendingInv
<1>a. UNCHANGED <<completing, verifying, seal, answer>>
  BY DEF Take, Recover, BeginFresh, FailChunk, memory
<1>b. transfers \in [Ids -> Transfer]
  BY TypeParts DEF MemoryType
<1>1. CASE Take(id)
  <2>1. UNCHANGED <<transfers, booting, fresh>>
    BY <1>1 DEF Take, memory
  <2>2. PendingHasSeal' /\ SealsAligned'
    BY <1>a, <2>1, PendingUntouched
  <2>3. FreshIsSettled' /\ FreshIsAbsent' /\ BootIsQuiet' /\ FullWhenSettled'
    BY <1>a, <2>1 DEF FreshIsSettled, FreshIsAbsent, BootIsQuiet, FullWhenSettled, Unsettled, Unfinished
  <2> QED
    BY <2>2, <2>3
<1>2. CASE Recover(id)
  <2>1. id \in booting /\ booting' = booting \ {id} /\ fresh' = fresh
    BY <1>2 DEF Recover
  <2>2. ~ fresh.busy /\ ~ transfers[id].live
    BY <2>1 DEF FreshIsAbsent, BootIsQuiet
  <2>3. completing[id] = NoCall /\ verifying[id] = NoCall
    BY <2>2 DEF PendingHasSeal
  <2>4. \/ UNCHANGED transfers
        \/ /\ transfers' = [transfers EXCEPT ![id] = Recovered(partial[id], meta[id])]
           /\ Recovered(partial[id], meta[id]).complete
                => Recovered(partial[id], meta[id]).received = Recovered(partial[id], meta[id]).size
    BY <1>2 DEF Recover, Recovered
  <2>5. \A j \in Ids \ {id} : transfers'[j] = transfers[j]
    BY <1>b, <2>4
  <2>6. PendingHasSeal' /\ SealsAligned'
    BY <1>a, <2>2, <2>5, PendingUntouched
  <2>7. FreshIsSettled' /\ FreshIsAbsent'
    BY <1>a, <2>1, <2>2 DEF FreshIsSettled, FreshIsAbsent
  <2>8. BootIsQuiet'
    <3>1. booting \subseteq Ids
      BY TypeParts DEF MemoryType
    <3> QED
      BY <1>a, <2>1, <2>5, <3>1 DEF BootIsQuiet, Unfinished
  <2>9. FullWhenSettled'
    <3>1. transfers'[id].complete => transfers'[id].received = transfers'[id].size
      BY <1>b, <2>4 DEF FullWhenSettled
    <3> QED
      BY <1>a, <2>3, <2>5, <3>1 DEF FullWhenSettled, Unsettled
  <2> QED
    BY <2>6, <2>7, <2>8, <2>9
<1>3. ASSUME NEW a \in Artifacts, BeginFresh(id, a)
      PROVE  PendingInv'
  <2>1. /\ UNCHANGED <<transfers, booting>> /\ booting = {} /\ ~ transfers[id].live
        /\ fresh'.call = NoCall /\ fresh'.id = id
    BY <1>3 DEF BeginFresh, memory, Ready
  <2>2. PendingHasSeal' /\ SealsAligned'
    BY <1>a, <2>1, PendingUntouched
  <2>3. FreshIsSettled' /\ FreshIsAbsent' /\ BootIsQuiet' /\ FullWhenSettled'
    BY <1>a, <2>1 DEF FreshIsSettled, FreshIsAbsent, BootIsQuiet, FullWhenSettled, Unsettled, Unfinished
  <2> QED
    BY <2>2, <2>3
<1>4. ASSUME NEW blocks \in Chunks, FailChunk(id, blocks)
      PROVE  PendingInv'
  <2>1. Len(blocks) \in Nat /\ transfers[id] \in Transfer
    BY <1>b, StoreAssumption, LenProperties DEF Content
  <2>2. /\ UNCHANGED <<booting, fresh>> /\ booting = {} /\ ~ fresh.busy
        /\ transfers[id].received + Len(blocks) <= transfers[id].size
        /\ \/ UNCHANGED transfers
           \/ transfers' = [transfers EXCEPT ![id].received = @ + Len(blocks)]
    BY <1>4 DEF FailChunk, Ready, Acceptable
  <2>3. \A j \in Ids \ {id} : transfers'[j] = transfers[j]
    BY <1>b, <2>2
  <2>4. /\ transfers'[id].size = transfers[id].size
        /\ transfers'[id].complete = transfers[id].complete
        /\ transfers'[id].live = transfers[id].live
        /\ transfers'[id].received \in {transfers[id].received, transfers[id].received + Len(blocks)}
    BY <1>b, <2>2 DEF Transfer
  <2>5. transfers[id].received = transfers[id].size => transfers'[id].received = transfers'[id].size
    BY <2>1, <2>2, <2>4 DEF Transfer
  <2>6. PendingHasSeal' /\ SealsAligned'
    <3>1. \A j \in Ids : transfers[j].live => transfers'[j].live
      BY <2>3, <2>4
    <3> QED
      BY <1>a, <3>1, PendingUntouched
  <2>7. FreshIsSettled' /\ FreshIsAbsent' /\ BootIsQuiet'
    BY <1>a, <2>2 DEF FreshIsSettled, FreshIsAbsent, BootIsQuiet
  <2>8. FullWhenSettled'
    BY <1>a, <2>3, <2>4, <2>5 DEF FullWhenSettled, Unsettled
  <2> QED
    BY <2>6, <2>7, <2>8
<1> QED
  BY <1>1, <1>2, <1>3, <1>4

\* The end of begin_fresh answers the call it runs for.
LEMMA PendingFresh ==
  ASSUME TypeOK, PendingInv, FinishFresh \/ FailFresh
  PROVE  PendingInv'
<1> USE DEF PendingInv
<1>a. /\ UNCHANGED <<completing, verifying, seal, booting>> /\ fresh.busy /\ fresh' = Idle
      /\ \/ answer' = Settled(answer, fresh.call, "restarted")
         \/ answer' = Settled(answer, fresh.call, "io")
      /\ \/ UNCHANGED transfers
         \/ \E t : ~ t.complete /\ t.live /\ transfers' = [transfers EXCEPT ![fresh.id] = t]
  <2>1. CASE FinishFresh
    BY <2>1 DEF FinishFresh
  <2>2. CASE FailFresh
    BY <2>2 DEF FailFresh, memory
  <2> QED
    BY <2>1, <2>2
<1>b. /\ transfers \in [Ids -> Transfer] /\ answer \in Seq(Answers)
      /\ fresh.id \in Ids /\ fresh.call \in Call \union {NoCall}
  BY TypeParts DEF MemoryType, AnswerType, FreshCall
<1>c. booting = {} /\ ~ transfers[fresh.id].live
  BY <1>a DEF FreshIsAbsent
<1>d. completing[fresh.id] = NoCall /\ verifying[fresh.id] = NoCall
  BY <1>b, <1>c DEF PendingHasSeal
<1>e. /\ Len(answer') = Len(answer)
      /\ \A c \in DOMAIN answer : c # fresh.call => answer'[c] = answer[c]
  <2>1. "restarted" \in Answers /\ "io" \in Answers
    BY DEF Answers
  <2>2. \A what \in Answers :
          /\ Len(Settled(answer, fresh.call, what)) = Len(answer)
          /\ \A c \in DOMAIN answer : c # fresh.call => Settled(answer, fresh.call, what)[c] = answer[c]
    <3> TAKE what \in Answers
    <3>1. answer \in Seq(Answers) /\ fresh.call \in Call \union {NoCall}
      BY <1>b
    <3> QED
      BY <3>1, SettledAnswers
  <2> QED
    BY <1>a, <2>1, <2>2
<1>f. /\ \A j \in Ids \ {fresh.id} : transfers'[j] = transfers[j]
      /\ transfers'[fresh.id] = transfers[fresh.id] \/ ~ transfers'[fresh.id].complete
  BY <1>a, <1>b
<1>1. SealsAligned' /\ FreshIsSettled' /\ FreshIsAbsent' /\ BootIsQuiet'
  BY <1>a, <1>c, <1>e DEF SealsAligned, FreshIsSettled, FreshIsAbsent, BootIsQuiet, Idle
<1>2. FullWhenSettled'
  BY <1>a, <1>d, <1>f DEF FullWhenSettled, Unsettled
<1>3. PendingHasSeal'
  <2> SUFFICES ASSUME NEW j \in Ids
               PROVE  /\ completing'[j] # NoCall \/ verifying'[j] # NoCall => transfers'[j].live
                      /\ completing'[j] # NoCall => NowAwaits(completing'[j], j, "hash")
                      /\ verifying'[j] # NoCall => NowAwaits(verifying'[j], j, "verify")
    BY PendingNow
  <2>1. CASE j = fresh.id
    BY <1>a, <1>d, <2>1
  <2>2. CASE j # fresh.id
    <3>1. /\ completing[j] # NoCall \/ verifying[j] # NoCall => transfers[j].live
          /\ completing[j] # NoCall => AwaitsSeal(completing[j], j, "hash")
          /\ verifying[j] # NoCall => AwaitsSeal(verifying[j], j, "verify")
      BY DEF PendingHasSeal
    <3>2. \A c \in {completing[j], verifying[j]} : c # NoCall => c # fresh.call
      BY WaitsOnce
    <3>3. \A c \in DOMAIN seal : c # fresh.call /\ Unfinished(c) => StillAwaits(c)
      BY <1>a, <1>e, PendingIndex DEF StillAwaits, Unfinished
    <3>4. /\ completing[j] # NoCall => StillAwaits(completing[j])
          /\ verifying[j] # NoCall => StillAwaits(verifying[j])
      BY <3>1, <3>2, <3>3 DEF AwaitsSeal, Unfinished
    <3>5. transfers'[j] = transfers[j] /\ UNCHANGED <<completing, verifying>>
      BY <1>a, <1>f, <2>2
    <3> QED
      BY <3>1, <3>4, <3>5, StillAwaiting
  <2> QED
    BY <2>1, <2>2
<1> QED
  BY <1>1, <1>2, <1>3

\* A restart leaves nobody waiting.
LEMMA PendingCrash == TypeOK /\ PendingInv /\ Crash => PendingInv'
<1> SUFFICES ASSUME TypeOK, PendingInv, Crash
             PROVE  PendingInv'
  OBVIOUS
<1>1. /\ transfers' = [id \in Ids |-> Absent] /\ completing' = [id \in Ids |-> NoCall]
      /\ verifying' = [id \in Ids |-> NoCall] /\ fresh' = Idle /\ booting' = Ids
      /\ seal' = [c \in DOMAIN seal |-> [seal[c] EXCEPT !.stage = "finished"]]
      /\ answer' = [c \in DOMAIN answer |-> IF answer[c] = "waiting" THEN "lost" ELSE answer[c]]
  BY DEF Crash
<1>2. SealsAligned'
  <2>1. SealType /\ AnswerType /\ SealType' /\ AnswerType'
    BY TypeCrash, TypeParts
  <2>2. DOMAIN seal' = DOMAIN seal /\ DOMAIN answer' = DOMAIN answer
    BY <1>1
  <2>3. Len(seal') = Len(seal)
    BY <2>1, <2>2, SameDomain DEF SealType
  <2>4. Len(answer') = Len(answer)
    BY <2>1, <2>2, SameDomain DEF AnswerType
  <2> QED
    BY <2>3, <2>4 DEF SealsAligned, PendingInv
<1>3. FreshIsSettled' /\ FreshIsAbsent'
  BY <1>1 DEF FreshIsSettled, FreshIsAbsent, Idle
<1>4. BootIsQuiet'
  <2>1. \A c \in DOMAIN seal' : seal'[c].stage = "finished"
    <3>1. seal \in [DOMAIN seal -> Seal]
      BY TypeParts, LenProperties DEF SealType
    <3> QED
      BY <1>1, <3>1 DEF Seal
  <2> QED
    BY <1>1, <2>1 DEF BootIsQuiet, Unfinished, Absent
<1>5. FullWhenSettled' /\ PendingHasSeal'
  BY <1>1 DEF FullWhenSettled, PendingHasSeal, Unsettled, Absent
<1> QED
  BY <1>2, <1>3, <1>4, <1>5 DEF PendingInv

\* What a seal's command does to the transfers: none is begun, none gets a size,
\* and one becomes complete only for a caller that waits.
LEMMA SealTransfers ==
  ASSUME TypeOK, NEW c \in DOMAIN seal, HashCompleted(c) \/ BeginVerified(c)
  PROVE  /\ seal[c].id \in Ids
         /\ \A j \in Ids \ {seal[c].id} : transfers'[j] = transfers[j]
         /\ \/ transfers'[seal[c].id] = Absent
            \/ transfers'[seal[c].id] = transfers[seal[c].id]
            \/ /\ transfers'[seal[c].id] = [transfers[seal[c].id] EXCEPT !.complete = TRUE]
               /\ Unsettled(seal[c].id)
<1>1. seal[c].id \in Ids
  <2>1. seal[c] \in Seal
    BY TypeParts, LenProperties DEF SealType
  <2> QED
    BY <2>1 DEF Seal
<1>2. transfers \in [Ids -> Transfer]
  BY TypeParts DEF MemoryType
<1> DEFINE id == seal[c].id
<1>3. \/ transfers' = transfers
      \/ transfers' = [transfers EXCEPT ![id] = Absent]
      \/ transfers' = [transfers EXCEPT ![id].complete = TRUE] /\ Unsettled(id)
  <2>1. CASE HashCompleted(c)
    BY <2>1 DEF HashCompleted, MarkComplete, Unsettled
  <2>2. CASE BeginVerified(c)
    BY <2>2 DEF BeginVerified, MarkComplete, Unsettled
  <2> QED
    BY <2>1, <2>2
<1> HIDE DEF id
<1>4. id \in Ids
  BY <1>1 DEF id
<1>5. /\ \A j \in Ids \ {id} : transfers'[j] = transfers[j]
      /\ \/ transfers'[id] = Absent
         \/ transfers'[id] = transfers[id]
         \/ transfers'[id] = [transfers[id] EXCEPT !.complete = TRUE] /\ Unsettled(id)
  BY <1>2, <1>3, <1>4
<1> QED
  BY <1>1, <1>5 DEF id

\* Taking the digest of a file.
LEMMA PendingSealFile ==
  ASSUME TypeOK, PendingInv, NEW c \in DOMAIN seal, SealFile(c)
  PROVE  PendingInv'
<1> USE DEF PendingInv
<1>1. UNCHANGED <<transfers, completing, verifying, fresh, booting, answer>> /\ Unfinished(c)
  BY DEF SealFile, memory, Unfinished
<1>2. seal \in [DOMAIN seal -> Seal]
  BY TypeParts, LenProperties DEF SealType
<1>3. PICK digest : seal' = [seal EXCEPT ![c] = [seal[c] EXCEPT !.stage = "hashed", !.digest = digest]]
  BY DEF SealFile
<1>4. /\ DOMAIN seal' = DOMAIN seal
      /\ \A d \in DOMAIN seal : /\ seal'[d].id = seal[d].id /\ seal'[d].kind = seal[d].kind
                                /\ d # c => seal'[d] = seal[d]
      /\ seal'[c].stage = "hashed"
  BY <1>2, <1>3 DEF Seal
<1>5. SealsAligned'
  <2>1. SealType /\ SealType'
    BY TypeSeals, TypeParts
  <2>2. Len(seal') = Len(seal)
    BY <1>4, <2>1, SameDomain DEF SealType
  <2> QED
    BY <1>1, <2>2 DEF SealsAligned
<1>6. FreshIsSettled' /\ FreshIsAbsent' /\ BootIsQuiet' /\ FullWhenSettled'
  BY <1>1, <1>4 DEF FreshIsSettled, FreshIsAbsent, BootIsQuiet, FullWhenSettled, Unsettled
<1>7. \A d \in DOMAIN seal : Unfinished(d) => StillAwaits(d)
  <2> SUFFICES ASSUME NEW d \in DOMAIN seal, Unfinished(d)
               PROVE  StillAwaits(d)
    OBVIOUS
  <2>1. seal'[d].stage \in {"running", "hashed"}
    BY <1>4 DEF Unfinished
  <2>2. answer'[d] = answer[d] /\ d \in DOMAIN seal' /\ seal'[d].id = seal[d].id /\ seal'[d].kind = seal[d].kind
    BY <1>1, <1>4
  <2> QED
    BY <2>1, <2>2 DEF StillAwaits
<1>8. PendingHasSeal'
  <2> SUFFICES ASSUME NEW j \in Ids
               PROVE  /\ completing'[j] # NoCall \/ verifying'[j] # NoCall => transfers'[j].live
                      /\ completing'[j] # NoCall => NowAwaits(completing'[j], j, "hash")
                      /\ verifying'[j] # NoCall => NowAwaits(verifying'[j], j, "verify")
    BY PendingNow
  <2>1. /\ completing[j] # NoCall \/ verifying[j] # NoCall => transfers[j].live
        /\ completing[j] # NoCall => AwaitsSeal(completing[j], j, "hash")
        /\ verifying[j] # NoCall => AwaitsSeal(verifying[j], j, "verify")
    BY DEF PendingHasSeal
  <2>2. /\ completing[j] # NoCall => StillAwaits(completing[j])
        /\ verifying[j] # NoCall => StillAwaits(verifying[j])
    BY <1>7, <2>1 DEF AwaitsSeal, Unfinished
  <2>3. UNCHANGED <<transfers, completing, verifying>>
    BY <1>1
  <2> QED
    BY <2>1, <2>2, <2>3, StillAwaiting
<1> QED
  BY <1>5, <1>6, <1>8

\* The command of a seal takes the call that waits under its id out of the
\* pending ones and answers it, and no other that goes on waiting.
LEMMA PendingReport ==
  ASSUME TypeOK, PendingInv, NEW c \in DOMAIN seal, HashCompleted(c) \/ BeginVerified(c)
  PROVE  PendingInv'
<1> USE DEF PendingInv
<1>a. /\ seal \in [DOMAIN seal -> Seal] /\ SealType
      /\ completing \in [Ids -> Call \union {NoCall}] /\ verifying \in [Ids -> Call \union {NoCall}]
      /\ answer \in Seq(Answers)
  BY TypeParts, LenProperties DEF SealType, PendingType, AnswerType
<1>b. PICK id \in Ids : id = seal[c].id
  BY <1>a DEF Seal
<1> USE <1>b
<1>c. /\ ~ fresh.busy /\ booting = {} /\ booting' = booting /\ seal[c].stage = "hashed"
  BY DEF HashCompleted, BeginVerified, Ready
<1>d. /\ Len(seal') = Len(seal) /\ DOMAIN seal' = DOMAIN seal
      /\ \A d \in DOMAIN seal : /\ seal'[d].id = seal[d].id /\ seal'[d].kind = seal[d].kind
                                /\ d # c => seal'[d].stage = seal[d].stage
  <2>1. Finished(c)
    BY DEF HashCompleted, BeginVerified
  <2> QED
    BY <1>a, <2>1, SealFinished
<1>e. /\ completing' \in {completing, [completing EXCEPT ![id] = NoCall]}
      /\ verifying' \in {verifying, [verifying EXCEPT ![id] = NoCall]}
      /\ seal[c].kind = "hash" => completing'[id] = NoCall
      /\ seal[c].kind = "verify" => verifying'[id] = NoCall
      /\ seal[c].kind \in {"hash", "verify"}
      /\ seal[c].kind = "hash" => verifying' = verifying /\ fresh' = fresh
  BY <1>a, <1>b DEF HashCompleted, BeginVerified
<1> DEFINE told == {completing[id], verifying[id]} \ {completing'[id], verifying'[id]}
<1>f. /\ Len(answer') = Len(answer)
      /\ \A d \in DOMAIN answer : d \notin told => answer'[d] = answer[d]
  <2>0. NoCall \notin DOMAIN answer
    BY PendingIndex
  <2>1. \E what \in Answers : \E w \in {NoCall, completing[id], verifying[id]} :
          answer' = Settled(answer, w, what) /\ (w = NoCall \/ w \in told)
    <3>a. {"io", "mismatch", "complete", "abandoned"} \subseteq Answers
      BY DEF Answers
    <3>b. completing[id] # NoCall => completing[id] # verifying[id]
      BY <1>b, WaitsOnce
    <3>c. answer' = answer => answer' = Settled(answer, NoCall, "io")
      BY DEF Settled
    <3>1. CASE HashCompleted(c)
      <4>1. completing' = [completing EXCEPT ![id] = NoCall] /\ verifying' = verifying
        BY <3>1 DEF HashCompleted
      <4>2. completing[id] = NoCall \/ completing[id] \in told
        BY <1>a, <1>b, <3>b, <4>1
      <4>3. \/ answer' = answer
            \/ answer' = Settled(answer, completing[id], "io")
            \/ answer' = Settled(answer, completing[id], "mismatch")
            \/ answer' = Settled(answer, completing[id], "complete")
        BY <3>1 DEF HashCompleted
      <4> HIDE DEF told
      <4> QED
        BY <3>a, <3>c, <4>2, <4>3
    <3>2. CASE BeginVerified(c)
      <4>1. verifying' = [verifying EXCEPT ![id] = NoCall]
        BY <3>2 DEF BeginVerified
      <4>2. \/ /\ completing' = completing
               /\ \/ answer' = Settled(answer, verifying[id], "io")
                  \/ answer' = Settled(answer, verifying[id], "complete")
            \/ /\ completing' = [completing EXCEPT ![id] = NoCall]
               /\ answer' = Settled(answer, completing[id], "abandoned")
        BY <3>2 DEF BeginVerified
      <4>3. CASE completing' = completing
        <5>1. verifying[id] = NoCall \/ verifying[id] \in told
          BY <1>a, <1>b, <3>b, <4>1, <4>3
        <5>2. completing[id] = NoCall => Settled(answer, completing[id], "abandoned") = Settled(answer, NoCall, "io")
          BY DEF Settled
        <5>3. completing' = [completing EXCEPT ![id] = NoCall] => completing[id] = NoCall
          BY <1>a, <1>b, <4>3
        <5> HIDE DEF told
        <5> QED
          BY <3>a, <4>2, <5>1, <5>2, <5>3
      <4>4. CASE /\ completing' = [completing EXCEPT ![id] = NoCall]
                 /\ answer' = Settled(answer, completing[id], "abandoned")
        <5>1. completing[id] = NoCall \/ completing[id] \in told
          BY <1>a, <1>b, <3>b, <4>1, <4>4
        <5> HIDE DEF told
        <5> QED
          BY <3>a, <4>4, <5>1
      <4> QED
        BY <4>2, <4>3, <4>4
    <3> QED
      BY <3>1, <3>2
  <2> HIDE DEF told
  <2>2. PICK what \in Answers, w \in {NoCall, completing[id], verifying[id]} :
          answer' = Settled(answer, w, what) /\ (w = NoCall \/ w \in told)
    BY <2>1
  <2>3. w \in Call \union {NoCall}
    BY <1>a, <1>b 
  <2>a. answer \in Seq(Answers)
    BY <1>a
  <2>4. /\ Settled(answer, w, what) \in Seq(Answers)
        /\ Len(Settled(answer, w, what)) = Len(answer)
        /\ DOMAIN Settled(answer, w, what) = DOMAIN answer
        /\ \A d \in DOMAIN answer : d # w => Settled(answer, w, what)[d] = answer[d]
        /\ w \in DOMAIN answer => Settled(answer, w, what)[w] = what
    BY <2>3, <2>a, SettledAnswers
  <2> QED
    BY <2>0, <2>2, <2>4
<1>g. \A j \in Ids \ {id} : completing'[j] = completing[j] /\ verifying'[j] = verifying[j]
  BY <1>a, <1>b, <1>e
<1>h. /\ completing'[id] \in {completing[id], NoCall} /\ verifying'[id] \in {verifying[id], NoCall}
  BY <1>a, <1>b, <1>e
<1>i. \/ transfers'[id] = Absent /\ completing'[id] = NoCall /\ verifying'[id] = NoCall
      \/ transfers'[id] = transfers[id]
      \/ transfers'[id] = [transfers[id] EXCEPT !.complete = TRUE] /\ Unsettled(id)
  <2>1. CASE transfers'[id] = Absent /\ transfers'[id] # transfers[id]
    <3>1. CASE HashCompleted(c)
      <4>1. UNCHANGED transfers \/ MarkComplete(id)
        BY <3>1 DEF HashCompleted
      <4>2. transfers \in [Ids -> Transfer]
        BY TypeParts DEF MemoryType
      <4>3. MarkComplete(id) => transfers'[id].complete
        BY <1>b, <4>2 DEF MarkComplete, Transfer
      <4> QED
        BY <2>1, <4>1, <4>3 DEF Absent
    <3>2. CASE BeginVerified(c)
      <4>1. transfers \in [Ids -> Transfer]
        BY TypeParts DEF MemoryType
      <4>2. \/ UNCHANGED transfers \/ MarkComplete(id)
            \/ /\ completing' = [completing EXCEPT ![id] = NoCall]
               /\ verifying' = [verifying EXCEPT ![id] = NoCall]
        BY <3>2 DEF BeginVerified
      <4>3. MarkComplete(id) => transfers'[id].complete
        BY <1>b, <4>1 DEF MarkComplete, Transfer
      <4> QED
        BY <1>a, <1>b, <2>1, <4>2, <4>3 DEF Absent
    <3> QED
      BY <3>1, <3>2
  <2> QED
    BY <2>1, SealTransfers
<1>j. \A j \in Ids \ {id} : transfers'[j] = transfers[j]
  BY SealTransfers
<1>1. SealsAligned'
  BY <1>d, <1>f DEF SealsAligned
<1>2. FreshIsSettled'
  <2>1. CASE fresh' = fresh
    <3>1. \A j \in Ids : fresh.call # NoCall => fresh.call \notin {completing'[j], verifying'[j]}
      BY <1>g, <1>h DEF FreshIsSettled
    <3> QED
      BY <1>d, <2>1, <3>1 DEF FreshIsSettled
  <2>2. CASE /\ verifying[id] # NoCall /\ fresh'.call = verifying[id]
             /\ completing'[id] = NoCall /\ verifying'[id] = NoCall
    <3>1. verifying[id] \in DOMAIN seal
      BY <1>b, <2>2 DEF PendingHasSeal, AwaitsSeal
    <3>2. \A j \in Ids \ {id} : verifying[id] \notin {completing[j], verifying[j]}
      BY <1>b, <2>2, WaitsOnce
    <3> QED
      BY <1>b, <1>d, <1>g, <2>2, <3>1, <3>2 DEF FreshIsSettled
  <2> QED
    BY <1>a, <1>b, <2>1, <2>2 DEF HashCompleted, BeginVerified
<1>3. FreshIsAbsent' /\ BootIsQuiet'
  <2>1. fresh'.busy => ~ transfers'[id].live /\ fresh'.id = id
    <3>1. transfers \in [Ids -> Transfer]
      BY TypeParts DEF MemoryType
    <3> QED
      BY <1>b, <1>c, <3>1 DEF HashCompleted, BeginVerified, Absent
  <2> QED
    BY <1>c, <2>1 DEF FreshIsAbsent, BootIsQuiet
<1>4. FullWhenSettled'
  <2>1. transfers \in [Ids -> Transfer]
    BY TypeParts DEF MemoryType
  <2>2. /\ transfers[id] \in Transfer
        /\ Unsettled(id) \/ transfers[id].complete => transfers[id].received = transfers[id].size
    BY <1>b, <2>1 DEF FullWhenSettled
  <2>3. Unsettled(id)' => Unsettled(id)
    BY <1>h DEF Unsettled
  <2>4. Unsettled(id)' \/ transfers'[id].complete => transfers'[id].received = transfers'[id].size
    <3>1. CASE transfers'[id] = Absent
      BY <3>1 DEF Absent
    <3>2. CASE transfers'[id] = transfers[id]
      BY <2>2, <2>3, <3>2
    <3>3. CASE transfers'[id] = [transfers[id] EXCEPT !.complete = TRUE] /\ Unsettled(id)
      BY <2>2, <3>3 DEF Transfer
    <3> QED
      BY <1>i, <3>1, <3>2, <3>3
  <2> QED
    BY <1>g, <1>j, <2>4 DEF FullWhenSettled, Unsettled
<1>5. PendingHasSeal'
  <2> SUFFICES ASSUME NEW j \in Ids
               PROVE  /\ completing'[j] # NoCall \/ verifying'[j] # NoCall => transfers'[j].live
                      /\ completing'[j] # NoCall => NowAwaits(completing'[j], j, "hash")
                      /\ verifying'[j] # NoCall => NowAwaits(verifying'[j], j, "verify")
    BY PendingNow
  <2>1. /\ completing[j] # NoCall \/ verifying[j] # NoCall => transfers[j].live
        /\ completing[j] # NoCall => AwaitsSeal(completing[j], j, "hash")
        /\ verifying[j] # NoCall => AwaitsSeal(verifying[j], j, "verify")
    BY DEF PendingHasSeal
  <2>2. \A d \in DOMAIN seal : d # c /\ d \notin told /\ Unfinished(d) => StillAwaits(d)
    <3> SUFFICES ASSUME NEW d \in DOMAIN seal, d # c, d \notin told, Unfinished(d)
                 PROVE  StillAwaits(d)
      OBVIOUS
    <3>1. answer'[d] = answer[d]
      BY <1>f, PendingIndex
    <3>2. /\ d \in DOMAIN seal' /\ seal'[d].id = seal[d].id /\ seal'[d].kind = seal[d].kind
          /\ seal'[d].stage = seal[d].stage
      BY <1>d
    <3> QED
      BY <3>1, <3>2 DEF StillAwaits, Unfinished
  <2>3. completing'[j] \in {completing[j], NoCall} /\ verifying'[j] \in {verifying[j], NoCall}
    BY <1>g, <1>h
  \* The finished seal is not one that somebody still waits for.
  <2>4. /\ completing'[j] # NoCall => completing[j] # c
        /\ verifying'[j] # NoCall => verifying[j] # c
    BY <1>e, <2>1, <2>3 DEF AwaitsSeal
  <2>5. /\ completing'[j] # NoCall => completing[j] \notin told
        /\ verifying'[j] # NoCall => verifying[j] \notin told
    <3>1. CASE j = id
      BY <1>h, <3>1
    <3>2. CASE j # id
      <4>1. /\ completing[j] # NoCall => completing[j] \notin {completing[id], verifying[id]}
            /\ verifying[j] # NoCall => verifying[j] \notin {completing[id], verifying[id]}
        BY <1>b, <3>2, WaitsOnce
      <4> QED
        BY <2>3, <4>1
    <3> QED
      BY <3>1, <3>2
  <2> HIDE DEF told
  <2>6. completing'[j] # NoCall => NowAwaits(completing'[j], j, "hash")
    <3> SUFFICES ASSUME completing'[j] # NoCall
                 PROVE  NowAwaits(completing'[j], j, "hash")
      OBVIOUS
    <3>1. completing'[j] = completing[j] /\ AwaitsSeal(completing[j], j, "hash")
      BY <2>1, <2>3
    <3>2. StillAwaits(completing[j])
      BY <2>2, <2>4, <2>5, <3>1 DEF AwaitsSeal, Unfinished
    <3> QED
      BY <3>1, <3>2, StillAwaiting
  <2>7. verifying'[j] # NoCall => NowAwaits(verifying'[j], j, "verify")
    <3> SUFFICES ASSUME verifying'[j] # NoCall
                 PROVE  NowAwaits(verifying'[j], j, "verify")
      OBVIOUS
    <3>1. verifying'[j] = verifying[j] /\ AwaitsSeal(verifying[j], j, "verify")
      BY <2>1, <2>3
    <3>2. StillAwaits(verifying[j])
      BY <2>2, <2>4, <2>5, <3>1 DEF AwaitsSeal, Unfinished
    <3> QED
      BY <3>1, <3>2, StillAwaiting
  <2>8. completing'[j] # NoCall \/ verifying'[j] # NoCall => transfers'[j].live
    <3>1. transfers \in [Ids -> Transfer]
      BY TypeParts DEF MemoryType
    <3>2. transfers[j].live => transfers'[j].live \/ (completing'[j] = NoCall /\ verifying'[j] = NoCall)
      BY <1>i, <1>j, <3>1 DEF Transfer
    <3> QED
      BY <2>1, <2>3, <3>2
  <2> QED
    BY <2>6, <2>7, <2>8
<1> QED
  BY <1>1, <1>2, <1>3, <1>4, <1>5

LEMMA PendingStep == TypeOK /\ PendingInv /\ [Next]_vars => PendingInv'
<1> SUFFICES ASSUME TypeOK, PendingInv, [Next]_vars
             PROVE  PendingInv'
  OBVIOUS
<1>1. CASE UNCHANGED vars
  BY <1>1 DEF vars, PendingInv, SealsAligned, FreshIsSettled, FreshIsAbsent, BootIsQuiet,
     FullWhenSettled, PendingHasSeal, AwaitsSeal, Unsettled, Unfinished
<1>2. CASE Next
  <2>1. ASSUME NEW id \in Ids, Commands(id) \/ Evict(id) \/ Recover(id)
        PROVE  PendingInv'
    <3>1. CASE Abandon(id) \/ Evict(id)
      BY <3>1, PendingDrop DEF Abandon, Evict
    <3>2. CASE ~ (Abandon(id) \/ Evict(id))
      BY <2>1, <3>2, PendingStart, PendingQuiet DEF Commands
    <3> QED
      BY <3>1, <3>2
  <2>2. CASE FinishFresh \/ FailFresh
    BY <2>2, PendingFresh
  <2>3. CASE Crash
    BY <2>3, PendingCrash
  <2>4. ASSUME NEW c \in DOMAIN seal, SealFile(c) \/ HashCompleted(c) \/ BeginVerified(c)
        PROVE  PendingInv'
    BY <2>4, PendingSealFile, PendingReport
  <2> QED
    BY <1>2, <2>1, <2>2, <2>3, <2>4 DEF Next
<1> QED
  BY <1>1, <1>2

LEMMA PendingInvariant == Spec => [](TypeOK /\ PendingInv)
<1>1. Init => TypeOK /\ PendingInv
  BY TypeInit, PendingInit
<1>2. (TypeOK /\ PendingInv) /\ [Next]_vars => (TypeOK /\ PendingInv)'
  BY TypeStep, PendingStep
<1> QED
  BY <1>1, <1>2, PTL DEF Spec

\* An id whose Begin is refused because a call is pending has that call's seal
\* under way, and its transfer, through evictions, late seals and restarts
\* (pending_completions, pending_begin_verifies).
THEOREM StorePendingHasSeal == Spec => []PendingHasSeal
BY PendingInvariant, PTL DEF PendingInv

-----------------------------------------------------------------------------
(* No acknowledgement is dropped.                                            *)

\* The callers of accept_chunk do not send empty chunks.
ChunksHaveBlocks == <<>> \notin Chunks

LEMMA ChunkLength ==
  ASSUME ChunksHaveBlocks, NEW blocks \in Chunks
  PROVE  Len(blocks) \in Nat /\ Len(blocks) > 0
<1>1. blocks \in Seq(Blocks) /\ blocks # <<>>
  BY StoreAssumption DEF ChunksHaveBlocks, Content
<1> QED
  BY <1>1, LenProperties, EmptySeq

\* A call that waits is not replaced: the chunk that would replace it does not
\* fit the transfer, which is full (FullWhenSettled).
LEMMA DroppedStep ==
  ASSUME TypeOK, PendingInv, ChunksHaveBlocks, NoCallerDropped, [Next]_vars
  PROVE  NoCallerDropped'
<1>1. answer \in Seq(Answers)
  BY TypeParts DEF AnswerType
<1>2. \A c \in DOMAIN answer : answer[c] # "dropped"
  BY DEF NoCallerDropped
<1>3. ASSUME NEW w \in Call \union {NoCall}, NEW what \in Answers \ {"dropped"},
             NEW ans \in Seq(Answers), \A c \in DOMAIN ans : ans[c] # "dropped"
      PROVE  /\ Settled(ans, w, what) \in Seq(Answers)
             /\ \A c \in DOMAIN Settled(ans, w, what) : Settled(ans, w, what)[c] # "dropped"
  <2>1. /\ Settled(ans, w, what) \in Seq(Answers)
        /\ Len(Settled(ans, w, what)) = Len(ans)
        /\ DOMAIN Settled(ans, w, what) = DOMAIN ans
        /\ \A d \in DOMAIN ans : d # w => Settled(ans, w, what)[d] = ans[d]
        /\ w \in DOMAIN ans => Settled(ans, w, what)[w] = what
    BY SettledAnswers
  <2> QED
    BY <1>3, <2>1
<1>4. {"complete", "mismatch", "io", "abandoned", "restarted"} \subseteq Answers \ {"dropped"}
  BY DEF Answers
<1>5. \A id \in Ids : completing[id] \in Call \union {NoCall} /\ verifying[id] \in Call \union {NoCall}
  BY TypeParts DEF PendingType
<1>6. \A w \in Call \union {NoCall} : \A what \in Answers \ {"dropped"} :
        answer' = Settled(answer, w, what) => NoCallerDropped'
  BY <1>1, <1>2, <1>3 DEF NoCallerDropped
<1>7. \A kind \in {"hash", "verify"} : \A id \in Ids : StartSeal(kind, id, answer) => NoCallerDropped'
  <2> SUFFICES ASSUME NEW kind \in {"hash", "verify"}, NEW id \in Ids, StartSeal(kind, id, answer)
               PROVE  NoCallerDropped'
    OBVIOUS
  <2>1. /\ DOMAIN answer' = DOMAIN answer \union {Len(answer')}
        /\ \A c \in DOMAIN answer : answer'[c] = answer[c]
        /\ answer'[Len(answer')] = "waiting"
    BY <1>1, TypeParts, SealStarted
  <2> QED
    BY <1>2, <2>1 DEF NoCallerDropped
<1>8. answer' = answer => NoCallerDropped'
  BY <1>2 DEF NoCallerDropped
<1>a. ASSUME NEW id \in Ids, Drop(id, answer)
      PROVE  NoCallerDropped'
  <2> DEFINE once == Settled(answer, completing[id], "abandoned")
  <2>1. /\ once \in Seq(Answers) /\ \A c \in DOMAIN once : once[c] # "dropped"
    BY <1>1, <1>2, <1>3, <1>4, <1>5
  <2>2. answer' = Settled(once, verifying[id], "abandoned")
    BY <1>a DEF Drop
  <2> HIDE DEF once
  <2> QED
    BY <1>3, <1>4, <1>5, <2>1, <2>2 DEF NoCallerDropped
<1>b. ASSUME NEW id \in Ids, Commands(id) \/ Evict(id) \/ Recover(id)
      PROVE  NoCallerDropped'
  <2>1. CASE Abandon(id) \/ Evict(id)
    BY <1>a, <2>1 DEF Abandon, Evict
  <2>2. CASE BeginVerify(id)
    BY <1>7, <2>2 DEF BeginVerify
  <2>3. ASSUME NEW blocks \in Chunks, AcceptChunk(id, blocks)
        PROVE  NoCallerDropped'
    <3>1. transfers[id] \in Transfer
      BY TypeParts DEF MemoryType
    <3>2. transfers[id].received + Len(blocks) <= transfers[id].size
      BY <2>3 DEF AcceptChunk, Acceptable
    <3>3. transfers[id].received # transfers[id].size
      BY <3>1, <3>2, ChunkLength DEF Transfer
    <3>4. completing[id] = NoCall
      BY <3>3 DEF PendingInv, FullWhenSettled, Unsettled
    <3>5. answer' = answer \/ StartSeal("hash", id, answer)
      BY <2>3, <3>4 DEF AcceptChunk, Settled
    <3> QED
      BY <1>7, <1>8, <3>5
  <2>4. CASE \/ Take(id) \/ Recover(id) \/ \E a \in Artifacts : BeginFresh(id, a)
             \/ \E blocks \in Chunks : FailChunk(id, blocks)
    BY <1>8, <2>4 DEF Take, Recover, BeginFresh, FailChunk
  <2> QED
    BY <1>b, <2>1, <2>2, <2>3, <2>4 DEF Commands
<1>c. ASSUME FinishFresh \/ FailFresh
      PROVE  NoCallerDropped'
  <2>1. fresh.call \in Call \union {NoCall}
    BY TypeParts DEF FreshCall
  <2>2. \E what \in {"restarted", "io"} : answer' = Settled(answer, fresh.call, what)
    BY <1>c DEF FinishFresh, FailFresh
  <2> QED
    BY <1>4, <1>6, <2>1, <2>2
<1>d. CASE Crash
  BY <1>2, <1>d DEF Crash, NoCallerDropped
<1>e. ASSUME NEW c \in DOMAIN seal, SealFile(c) \/ HashCompleted(c) \/ BeginVerified(c)
      PROVE  NoCallerDropped'
  <2>1. seal[c].id \in Ids
    <3>1. seal[c] \in Seal
      BY TypeParts, LenProperties DEF SealType
    <3> QED
      BY <3>1 DEF Seal
  <2>2. \/ answer' = answer
        \/ \E w \in {completing[seal[c].id], verifying[seal[c].id]} :
             \E what \in {"complete", "mismatch", "io", "abandoned"} : answer' = Settled(answer, w, what)
    BY <1>e DEF SealFile, HashCompleted, BeginVerified
  <2> QED
    BY <1>4, <1>5, <1>6, <1>8, <2>1, <2>2
<1> QED
  BY <1>8, <1>b, <1>c, <1>d, <1>e DEF Next, vars

\* No caller that sends its chunks finds its acknowledgement closed while the
\* actor runs, late seals and abandons included (handle_chunk, which inserts into
\* pending_completions without looking).
THEOREM StoreNoCallerDropped ==
  ASSUME ChunksHaveBlocks
  PROVE  Spec => []NoCallerDropped
<1>1. Init => NoCallerDropped
  BY DEF Init, NoCallerDropped
<1>2. TypeOK /\ PendingInv /\ NoCallerDropped /\ [Next]_vars => NoCallerDropped'
  BY DroppedStep
<1> QED
  BY <1>1, <1>2, PendingInvariant, PTL DEF Spec

-----------------------------------------------------------------------------
(* The offset of a transfer and the length of its file.                      *)

\* The files and the offsets of all ids but one stay.
LEMMA ResumeElsewhere ==
  ASSUME ResumeWithinFile, faults = 0, NEW id \in Ids,
         \A j \in Ids \ {id} : transfers'[j] = transfers[j] /\ partial'[j] = partial[j],
         transfers'[id].live /\ partial'[id].exists
            => transfers'[id].received <= Len(partial'[id].blocks)
  PROVE  ResumeWithinFile'
BY DEF ResumeWithinFile, Live

LEMMA ResumeStep == TypeOK /\ ResumeWithinFile /\ [Next]_vars => ResumeWithinFile'
<1> SUFFICES ASSUME TypeOK, ResumeWithinFile, [Next]_vars, faults' = 0
             PROVE  ResumeWithinFile'
  BY DEF ResumeWithinFile
<1>a. /\ transfers \in [Ids -> Transfer] /\ partial \in [Ids -> TransferFile]
      /\ meta \in [Ids -> TransferMeta] /\ faults \in Nat
  BY TypeParts DEF MemoryType, DiskType, CountType
<1>b. faults = 0
  <2>1. faults' = faults \/ faults' = faults + 1
    <3>1. CASE UNCHANGED vars
      BY <3>1 DEF vars
    <3>2. CASE Next
      BY <3>2 DEF Next, Commands, Abandon, BeginVerify, Take, BeginFresh, AcceptChunk, FailChunk, Evict,
         Recover, FinishFresh, FailFresh, Crash, SealFile, HashCompleted, BeginVerified, MarkComplete
    <3> QED
      BY <3>1, <3>2
  <2> QED
    BY <1>a, <2>1
<1>1. ASSUME UNCHANGED <<transfers, partial>>
      PROVE  ResumeWithinFile'
  BY <1>1, <1>b DEF ResumeWithinFile, Live
<1>2. ASSUME NEW id \in Ids, Drop(id, answer)
      PROVE  ResumeWithinFile'
  BY <1>2, <1>a, <1>b, ResumeElsewhere DEF Drop, Absent
<1>3. ASSUME NEW id \in Ids, NEW blocks \in Chunks, AcceptChunk(id, blocks)
      PROVE  ResumeWithinFile'
  <2>1. blocks \in Seq(Blocks) /\ partial[id].blocks \in Seq(Blocks)
    BY <1>a, StoreAssumption DEF Content, TransferFile
  <2>2. /\ transfers[id].live /\ partial[id].exists
        /\ partial' = [partial EXCEPT ![id].blocks = @ \o blocks]
        /\ transfers' = [transfers EXCEPT ![id].received = transfers[id].received + Len(blocks)]
    BY <1>3 DEF AcceptChunk, Acceptable
  <2>3. transfers[id].received <= Len(partial[id].blocks)
    BY <1>b, <2>2 DEF ResumeWithinFile, Live
  <2>4. /\ Len(partial[id].blocks \o blocks) = Len(partial[id].blocks) + Len(blocks)
        /\ Len(partial[id].blocks) \in Nat /\ Len(blocks) \in Nat
    BY <2>1, ConcatProperties, LenProperties
  <2>5. /\ \A j \in Ids \ {id} : transfers'[j] = transfers[j] /\ partial'[j] = partial[j]
        /\ transfers'[id].received = transfers[id].received + Len(blocks)
        /\ partial'[id].blocks = partial[id].blocks \o blocks
    BY <1>a, <2>2 DEF Transfer, TransferFile
  <2>6. transfers'[id].received <= Len(partial'[id].blocks)
    BY <1>a, <2>3, <2>4, <2>5 DEF Transfer
  <2> QED
    BY <1>b, <2>5, <2>6, ResumeElsewhere
<1>4. ASSUME NEW id \in Ids, Recover(id)
      PROVE  ResumeWithinFile'
  <2>1. CASE meta[id].exists /\ partial[id].exists
    <3> DEFINE kept == Least(Len(partial[id].blocks), meta[id].size)
    <3>1. Len(partial[id].blocks) \in Nat /\ meta[id].size \in Nat /\ partial[id] \in TransferFile
      BY <1>a, LenProperties DEF TransferFile, TransferMeta, Content
    <3>2. kept \in 0..Len(partial[id].blocks)
      BY <3>1 DEF Least
    <3>3. Len(Torn(partial[id], kept).blocks) = kept
      BY <3>1, <3>2, TornFile
    <3>4. /\ transfers' = [transfers EXCEPT ![id] = Recovered(partial[id], meta[id])]
          /\ partial' = [partial EXCEPT ![id] = Torn(partial[id], kept)]
      BY <1>4, <2>1 DEF Recover
    <3>5. Recovered(partial[id], meta[id]).received = kept
      BY DEF Recovered
    <3> HIDE DEF kept
    <3>6. /\ \A j \in Ids \ {id} : transfers'[j] = transfers[j] /\ partial'[j] = partial[j]
          /\ transfers'[id].received = kept /\ Len(partial'[id].blocks) = kept
      BY <1>a, <3>3, <3>4, <3>5
    <3>7. transfers'[id].received <= Len(partial'[id].blocks)
      BY <3>2, <3>6
    <3> QED
      BY <1>b, <3>6, <3>7, ResumeElsewhere
  <2>2. CASE ~ (meta[id].exists /\ partial[id].exists)
    BY <1>4, <1>a, <1>b, <2>2, ResumeElsewhere DEF Recover, Missing
  <2> QED
    BY <2>1, <2>2
<1>5. ASSUME NEW id \in Ids, Commands(id) \/ Evict(id)
      PROVE  ResumeWithinFile'
  <2>1. CASE Take(id)
    BY <1>a, <1>b, <2>1, ResumeElsewhere DEF Take, memory, Missing
  <2>2. ASSUME NEW blocks \in Chunks, FailChunk(id, blocks)
        PROVE  ResumeWithinFile'
    BY <1>a, <1>b, <2>2 DEF FailChunk
  <2>3. ASSUME \/ BeginVerify(id) \/ \E a \in Artifacts : BeginFresh(id, a)
        PROVE  ResumeWithinFile'
    BY <1>1, <2>3 DEF BeginVerify, BeginFresh, memory, disk
  <2>4. CASE Abandon(id) \/ Evict(id)
    BY <1>2, <2>4 DEF Abandon, Evict
  <2> QED
    BY <1>3, <1>5, <2>1, <2>2, <2>3, <2>4 DEF Commands
<1>6. CASE FinishFresh
  <2>1. fresh.id \in Ids
    BY TypeParts DEF FreshCall
  <2>2. /\ \A j \in Ids \ {fresh.id} : transfers'[j] = transfers[j] /\ partial'[j] = partial[j]
        /\ transfers'[fresh.id].received = 0 /\ partial'[fresh.id].blocks = <<>>
    BY <1>6, <1>a, <2>1 DEF FinishFresh, File
  <2>3. transfers'[fresh.id].received <= Len(partial'[fresh.id].blocks)
    BY <2>2
  <2> QED
    BY <1>b, <2>1, <2>2, <2>3, ResumeElsewhere
<1>7. CASE FailFresh
  BY <1>7, <1>a, <1>b DEF FailFresh
<1>8. CASE Crash
  BY <1>8 DEF Crash, ResumeWithinFile, Live, Absent
<1>9. ASSUME NEW c \in DOMAIN seal, SealFile(c) \/ HashCompleted(c) \/ BeginVerified(c)
      PROVE  ResumeWithinFile'
  <2>1. CASE SealFile(c)
    BY <1>1, <2>1 DEF SealFile, memory, disk
  <2>2. CASE HashCompleted(c) \/ BeginVerified(c)
    <3>1. PICK id \in Ids : id = seal[c].id
      BY <2>2, SealTransfers
    <3>2. /\ \A j \in Ids \ {id} : transfers'[j] = transfers[j]
          /\ \/ transfers'[id] = Absent
             \/ transfers'[id] = transfers[id]
             \/ transfers'[id] = [transfers[id] EXCEPT !.complete = TRUE]
      BY <2>2, <3>1, SealTransfers
    <3>3. \/ partial' = partial
          \/ partial' = [partial EXCEPT ![id] = Missing]
      BY <2>2, <3>1 DEF HashCompleted, BeginVerified, disk
    <3>4. /\ \A j \in Ids \ {id} : partial'[j] = partial[j]
          /\ partial'[id] = partial[id] \/ ~ partial'[id].exists
      BY <1>a, <3>3 DEF Missing
    <3>5. transfers'[id].live /\ partial'[id].exists
             => transfers'[id].received <= Len(partial'[id].blocks)
      <4>1. transfers[id].live /\ partial[id].exists => transfers[id].received <= Len(partial[id].blocks)
        BY <1>b DEF ResumeWithinFile, Live
      <4>2. transfers[id] \in Transfer
        BY <1>a
      <4>3. transfers'[id].live => transfers[id].live /\ transfers'[id].received = transfers[id].received
        BY <3>2, <4>2 DEF Transfer, Absent
      <4> QED
        BY <3>4, <4>1, <4>3
    <3> QED
      BY <1>b, <3>2, <3>4, <3>5, ResumeElsewhere
  <2> QED
    BY <1>9, <2>1, <2>2
<1> QED
  BY <1>1, <1>4, <1>5, <1>6, <1>7, <1>8, <1>9 DEF Next, vars

\* A Begin resumes at an offset that the file has, however often the daemon
\* restarts and whatever a restart cuts off, unless a write failed before
\* (load_recovered_transfer, handle_chunk_write).
THEOREM StoreResumeWithinFile == Spec => []ResumeWithinFile
<1>1. Init => ResumeWithinFile
  BY DEF Init, ResumeWithinFile, Live, Absent
<1>2. TypeOK /\ ResumeWithinFile /\ [Next]_vars => ResumeWithinFile'
  BY ResumeStep
<1> QED
  BY <1>1, <1>2, StoreTypeCorrect, PTL DEF Spec

-----------------------------------------------------------------------------
(* What a caller is told about its file, and what a transfer marked complete *)
(* is, when an id does not begin anew while an old file of it is hashed.     *)

\* No file of id is being hashed, nor its hash waiting to be handled.
Unsealed(id) == \A c \in DOMAIN seal : Unfinished(c) => seal[c].id # id

\* An id waits for a hash or for a check, never for both.
OneCall == \A id \in Ids : completing[id] = NoCall \/ verifying[id] = NoCall

\* The file of a known transfer is hashed for the call that waits for it.
OwnSeal ==
  \A c \in DOMAIN seal :
    Unfinished(c) /\ transfers[seal[c].id].live
      => c \in {completing[seal[c].id], verifying[seal[c].id]}

\* begin_fresh runs for an id of which nothing is being hashed.
FreshUnsealed == fresh.busy => Unsealed(fresh.id)

\* A digest that waits to be handled is that of the file as it is.
SealTells ==
  \A c \in DOMAIN seal :
    seal[c].stage = "hashed" /\ transfers[seal[c].id].live /\ seal[c].digest # IoError
      => partial[seal[c].id].exists /\ seal[c].digest = partial[seal[c].id].blocks

SealInv == OneCall /\ OwnSeal /\ FreshUnsealed /\ SealTells

LEMMA SealTypes ==
  ASSUME TypeOK
  PROVE  /\ transfers \in [Ids -> Transfer]
         /\ completing \in [Ids -> Call \union {NoCall}] /\ verifying \in [Ids -> Call \union {NoCall}]
         /\ partial \in [Ids -> TransferFile] /\ meta \in [Ids -> TransferMeta]
         /\ seal \in [DOMAIN seal -> Seal] /\ \A c \in DOMAIN seal : seal[c].id \in Ids
         /\ answer \in Seq(Answers) /\ fresh \in FreshCall /\ fresh.id \in Ids
<1>1. seal \in [DOMAIN seal -> Seal]
  BY TypeParts, LenProperties DEF SealType
<1> QED
  BY <1>1, TypeParts DEF MemoryType, PendingType, DiskType, AnswerType, FreshCall, Seal

\* Nothing of a known transfer is being hashed when nobody waits for it.
LEMMA SettledIsUnsealed ==
  ASSUME TypeOK, PendingInv, OwnSeal, NEW id \in Ids, transfers[id].live, ~ Unsettled(id)
  PROVE  Unsealed(id)
<1>1. NoCall \notin DOMAIN seal
  BY PendingIndex DEF PendingInv
<1> QED
  BY <1>1 DEF OwnSeal, Unsealed, Unsettled

\* A step that starts and finishes no seal, and concerns one id.
LEMMA SealQuiet ==
  ASSUME TypeOK, SealInv, NEW id \in Ids, seal' = seal,
         \A j \in Ids \ {id} : /\ transfers'[j].live = transfers[j].live /\ partial'[j] = partial[j]
                               /\ completing'[j] = completing[j] /\ verifying'[j] = verifying[j],
         completing'[id] \in {completing[id], NoCall}, verifying'[id] \in {verifying[id], NoCall},
         transfers'[id].live =>
           \/ Unsealed(id)
           \/ /\ transfers[id].live /\ partial'[id] = partial[id]
              /\ completing'[id] = completing[id] /\ verifying'[id] = verifying[id],
         fresh'.busy => Unsealed(fresh'.id)
  PROVE  SealInv'
<1> USE DEF SealInv
<1>a. \A c \in DOMAIN seal : seal[c].id \in Ids
  BY SealTypes
<1>1. OneCall'
  BY DEF OneCall
<1>2. FreshUnsealed'
  BY DEF FreshUnsealed, Unsealed, Unfinished
<1>3. ASSUME NEW c \in DOMAIN seal, Unfinished(c), transfers'[seal[c].id].live
      PROVE  /\ transfers[seal[c].id].live /\ partial'[seal[c].id] = partial[seal[c].id]
             /\ completing'[seal[c].id] = completing[seal[c].id]
             /\ verifying'[seal[c].id] = verifying[seal[c].id]
  BY <1>a, <1>3 DEF Unsealed
<1>4. OwnSeal'
  BY <1>3 DEF OwnSeal, Unfinished
<1>5. SealTells'
  BY <1>3 DEF SealTells, Unfinished
<1> QED
  BY <1>1, <1>2, <1>4, <1>5

LEMMA SealInit == Init => SealInv
BY RecordTypes DEF Init, SealInv, OneCall, OwnSeal, FreshUnsealed, SealTells, Idle

\* Abandon and eviction.
LEMMA SealDrop ==
  ASSUME TypeOK, SealInv, NEW id \in Ids, Drop(id, answer), UNCHANGED <<fresh, seal>>
  PROVE  SealInv'
<1>1. /\ transfers'[id] = Absent /\ completing'[id] = NoCall /\ verifying'[id] = NoCall
      /\ \A j \in Ids \ {id} : /\ transfers'[j] = transfers[j] /\ partial'[j] = partial[j]
                               /\ completing'[j] = completing[j] /\ verifying'[j] = verifying[j]
  BY SealTypes DEF Drop
<1>2. ~ transfers'[id].live
  BY <1>1 DEF Absent
<1>3. fresh'.busy => Unsealed(fresh'.id)
  BY DEF SealInv, FreshUnsealed
<1> QED
  BY <1>1, <1>2, <1>3, SealQuiet

\* A step that changes the file of one known transfer that nobody waits for.
LEMMA SealWrite ==
  ASSUME TypeOK, PendingInv, SealInv, NEW id \in Ids, ~ Unsettled(id),
         \A j \in Ids : transfers'[j].live = transfers[j].live,
         \A j \in Ids \ {id} : partial'[j] = partial[j],
         UNCHANGED <<completing, verifying, fresh, seal>>
  PROVE  SealInv'
<1>1. transfers'[id].live => Unsealed(id)
  BY SettledIsUnsealed DEF SealInv
<1>2. fresh'.busy => Unsealed(fresh'.id)
  BY DEF SealInv, FreshUnsealed
<1> QED
  BY <1>1, <1>2, SealQuiet

\* A chunk finds a transfer that is not full: nobody waits for it.
LEMMA ChunkUnsettled ==
  ASSUME TypeOK, PendingInv, ChunksHaveBlocks, NEW id \in Ids, NEW blocks \in Chunks,
         Acceptable(id, blocks)
  PROVE  ~ Unsettled(id) /\ ~ transfers[id].complete
<1>1. transfers[id] \in Transfer /\ Len(blocks) \in Nat /\ Len(blocks) > 0
  BY SealTypes, ChunkLength
<1>2. transfers[id].received # transfers[id].size
  BY <1>1 DEF Acceptable, Transfer
<1> QED
  BY <1>2 DEF PendingInv, FullWhenSettled

\* A step that starts a seal for an id that nobody waits for.
LEMMA SealNew ==
  ASSUME TypeOK, PendingInv, SealInv, NEW id \in Ids, ~ Unsettled(id), transfers[id].live,
         ~ fresh.busy, fresh' = fresh, NEW kind \in {"hash", "verify"}, StartSeal(kind, id, answer),
         \A j \in Ids : transfers'[j].live = transfers[j].live,
         \A j \in Ids \ {id} : partial'[j] = partial[j],
         \A j \in Ids \ {id} : completing'[j] = completing[j] /\ verifying'[j] = verifying[j],
         \/ completing'[id] = Len(seal') /\ verifying'[id] = NoCall
         \/ completing'[id] = NoCall /\ verifying'[id] = Len(seal')
  PROVE  SealInv'
<1> USE DEF SealInv
<1>a. SealType /\ answer \in Seq(Answers)
  BY TypeParts DEF AnswerType
<1>b. /\ DOMAIN seal' = DOMAIN seal \union {Len(seal')}
      /\ \A c \in DOMAIN seal : seal'[c] = seal[c]
      /\ seal'[Len(seal')] = [kind |-> kind, id |-> id, stage |-> "running", digest |-> IoError]
  BY <1>a, SealStarted
<1>c. \A c \in DOMAIN seal : seal[c].id \in Ids /\ (Unfinished(c) => seal[c].id # id)
  BY SealTypes, SettledIsUnsealed DEF Unsealed
<1>d. /\ seal'[Len(seal')].id = id /\ seal'[Len(seal')].stage = "running"
      /\ Len(seal') \in {completing'[id], verifying'[id]}
  <2>1. seal'[Len(seal')].id = id /\ seal'[Len(seal')].stage = "running"
    <3> DEFINE new == [kind |-> kind, id |-> id, stage |-> "running", digest |-> IoError]
    <3>1. new.id = id /\ new.stage = "running"
      OBVIOUS
    <3>2. seal'[Len(seal')] = new
      BY <1>b
    <3> HIDE DEF new
    <3> QED
      BY <3>1, <3>2
  <2>2. Len(seal') \in {completing'[id], verifying'[id]}
    OBVIOUS
  <2> QED
    BY <2>1, <2>2
<1>1. OneCall'
  BY DEF OneCall
<1>2. FreshUnsealed'
  BY DEF FreshUnsealed
<1>3. OwnSeal'
  <2> SUFFICES ASSUME NEW c \in DOMAIN seal', seal'[c].stage \in {"running", "hashed"},
                      transfers'[seal'[c].id].live
               PROVE  c \in {completing'[seal'[c].id], verifying'[seal'[c].id]}
    BY DEF OwnSeal, Unfinished
  <2>1. CASE c \in DOMAIN seal
    <3>1. seal'[c] = seal[c]
      BY <1>b, <2>1
    <3>2. PICK j \in Ids : j = seal[c].id
      BY <1>c, <2>1
    <3>3. Unfinished(c) /\ j # id
      BY <1>c, <2>1, <3>1, <3>2 DEF Unfinished
    <3>4. transfers[j].live
      BY <3>1, <3>2
    <3>5. c \in {completing[j], verifying[j]}
      BY <2>1, <3>2, <3>3, <3>4 DEF OwnSeal
    <3> QED
      BY <3>1, <3>2, <3>3, <3>5
  <2>2. CASE c = Len(seal')
    BY <1>d, <2>2
  <2> QED
    BY <1>b, <2>1, <2>2
<1>4. SealTells'
  <2> SUFFICES ASSUME NEW c \in DOMAIN seal', seal'[c].stage = "hashed",
                      transfers'[seal'[c].id].live, seal'[c].digest # IoError
               PROVE  partial'[seal'[c].id].exists /\ seal'[c].digest = partial'[seal'[c].id].blocks
    BY DEF SealTells
  <2>1. c \in DOMAIN seal /\ seal'[c] = seal[c]
    BY <1>b, <1>d
  <2> QED
    BY <1>c, <2>1 DEF SealTells, Unfinished
<1> QED
  BY <1>1, <1>2, <1>3, <1>4

\* The calls of one id.
LEMMA SealCommands ==
  ASSUME TypeOK, PendingInv, SealInv, ~ LateSeals, ChunksHaveBlocks, NEW id \in Ids, Commands(id)
  PROVE  SealInv'
<1>1. CASE Abandon(id)
  BY <1>1, SealDrop DEF Abandon
<1>2. CASE BeginVerify(id)
  <2>1. /\ ~ Unsettled(id) /\ transfers[id].live /\ ~ fresh.busy /\ StartSeal("verify", id, answer)
        /\ verifying' = [verifying EXCEPT ![id] = Len(seal')]
        /\ UNCHANGED <<completing, transfers, partial, fresh>>
    BY <1>2 DEF BeginVerify, Ready, disk
  <2>2. /\ completing'[id] = NoCall /\ verifying'[id] = Len(seal')
        /\ \A j \in Ids \ {id} : completing'[j] = completing[j] /\ verifying'[j] = verifying[j]
    BY <2>1, SealTypes DEF Unsettled
  <2> QED
    BY <2>1, <2>2, SealNew
<1>3. CASE Take(id)
  <2>1. /\ ~ Unsettled(id) /\ UNCHANGED <<transfers, completing, verifying, fresh, seal>>
        /\ \A j \in Ids \ {id} : partial'[j] = partial[j]
    BY <1>3, SealTypes DEF Take, memory
  <2> QED
    BY <2>1, SealWrite
<1>4. ASSUME NEW a \in Artifacts, BeginFresh(id, a)
      PROVE  SealInv'
  <2>1. /\ fresh'.id = id /\ UNCHANGED <<transfers, completing, verifying, partial, seal>>
    BY <1>4 DEF BeginFresh, memory, disk
  <2>2. Unsealed(id)
    BY <1>4 DEF BeginFresh, Sealing, Unsealed, Unfinished
  <2> QED
    BY <2>1, <2>2, SealQuiet
<1>5. ASSUME NEW blocks \in Chunks, AcceptChunk(id, blocks)
      PROVE  SealInv'
  <2> DEFINE received == transfers[id].received + Len(blocks)
  <2>1. ~ Unsettled(id)
    BY <1>5, ChunkUnsettled DEF AcceptChunk
  <2>2. completing[id] = NoCall /\ verifying[id] = NoCall
    BY <2>1 DEF Unsettled
  <2>3. /\ transfers' = [transfers EXCEPT ![id].received = received]
        /\ partial' = [partial EXCEPT ![id].blocks = @ \o blocks]
        /\ transfers[id].live /\ ~ fresh.busy /\ fresh' = fresh /\ verifying' = verifying
        /\ \/ UNCHANGED <<completing, seal>>
           \/ StartSeal("hash", id, answer) /\ completing' = [completing EXCEPT ![id] = Len(seal')]
    BY <1>5, <2>2 DEF AcceptChunk, Acceptable, Ready, Settled
  <2> HIDE DEF received
  <2>4. /\ \A j \in Ids : transfers'[j].live = transfers[j].live
        /\ \A j \in Ids \ {id} : partial'[j] = partial[j]
    BY <2>3, SealTypes DEF Transfer, TransferFile
  <2>5. CASE UNCHANGED <<completing, seal>>
    BY <2>1, <2>3, <2>4, <2>5, SealWrite
  <2>6. CASE StartSeal("hash", id, answer) /\ completing' = [completing EXCEPT ![id] = Len(seal')]
    <3>1. /\ completing'[id] = Len(seal') /\ verifying'[id] = NoCall
          /\ \A j \in Ids \ {id} : completing'[j] = completing[j] /\ verifying'[j] = verifying[j]
      BY <2>2, <2>3, <2>6, SealTypes
    <3> QED
      BY <2>1, <2>3, <2>4, <2>6, <3>1, SealNew
  <2> QED
    BY <2>3, <2>5, <2>6
<1>6. ASSUME NEW blocks \in Chunks, FailChunk(id, blocks)
      PROVE  SealInv'
  <2>1. ~ Unsettled(id)
    BY <1>6, ChunkUnsettled DEF FailChunk
  <2>2. /\ \A j \in Ids : transfers'[j].live = transfers[j].live
        /\ \A j \in Ids \ {id} : partial'[j] = partial[j]
        /\ UNCHANGED <<completing, verifying, fresh, seal>>
    <3>1. /\ \/ UNCHANGED transfers
             \/ transfers' = [transfers EXCEPT ![id].received = @ + Len(blocks)]
          /\ \E n \in 0..Len(blocks) :
               partial' = [partial EXCEPT ![id].blocks = @ \o SubSeq(blocks, 1, n)]
          /\ UNCHANGED <<completing, verifying, fresh, seal>>
      BY <1>6 DEF FailChunk
    <3>2. \A j \in Ids : transfers'[j].live = transfers[j].live
      <4> DEFINE received == transfers[id].received + Len(blocks)
      <4>1. transfers' = transfers \/ transfers' = [transfers EXCEPT ![id].received = received]
        BY <3>1
      <4> HIDE DEF received
      <4>2. transfers \in [Ids -> Transfer]
        BY SealTypes
      <4>3. CASE transfers' = [transfers EXCEPT ![id].received = received]
        BY <4>2, <4>3 DEF Transfer
      <4> QED
        BY <4>1, <4>3
    <3>3. \A j \in Ids \ {id} : partial'[j] = partial[j]
      BY <3>1, SealTypes
    <3> QED
      BY <3>1, <3>2, <3>3
  <2> QED
    BY <2>1, <2>2, SealWrite
<1> QED
  BY <1>1, <1>2, <1>3, <1>4, <1>5, <1>6 DEF Commands

\* Bootstrap, and the end of begin_fresh.
LEMMA SealBegin ==
  ASSUME TypeOK, PendingInv, SealInv,
         FinishFresh \/ FailFresh \/ \E id \in Ids : Recover(id)
  PROVE  SealInv'
<1>1. ASSUME NEW id \in Ids, Recover(id)
      PROVE  SealInv'
  <2>1. /\ booting # {} /\ UNCHANGED <<completing, verifying, fresh, seal>>
        /\ \A j \in Ids \ {id} : transfers'[j] = transfers[j] /\ partial'[j] = partial[j]
    BY <1>1, SealTypes DEF Recover
  <2>2. \A j \in Ids : Unsealed(j)
    BY <2>1 DEF PendingInv, BootIsQuiet, Unsealed
  <2>3. fresh.id \in Ids
    BY SealTypes
  <2> QED
    BY <2>1, <2>2, <2>3, SealQuiet
<1>2. CASE FinishFresh \/ FailFresh
  <2>1. /\ fresh.busy /\ fresh.id \in Ids /\ ~ fresh'.busy /\ UNCHANGED <<completing, verifying, seal>>
        /\ \A j \in Ids \ {fresh.id} : transfers'[j] = transfers[j] /\ partial'[j] = partial[j]
    BY <1>2, SealTypes DEF FinishFresh, FailFresh, memory, Idle
  <2>2. Unsealed(fresh.id)
    BY <2>1 DEF SealInv, FreshUnsealed
  <2>3. PICK id \in Ids : id = fresh.id
    BY <2>1
  <2> QED
    BY <2>1, <2>2, <2>3, SealQuiet
<1> QED
  BY <1>1, <1>2

LEMMA SealCrash == TypeOK /\ Crash => SealInv'
<1> SUFFICES ASSUME TypeOK, Crash
             PROVE  SealInv'
  OBVIOUS
<1>1. /\ seal' = [c \in DOMAIN seal |-> [seal[c] EXCEPT !.stage = "finished"]]
      /\ completing' = [id \in Ids |-> NoCall] /\ fresh' = Idle
  BY DEF Crash
<1>2. \A c \in DOMAIN seal' : seal'[c].stage = "finished"
  BY <1>1, SealTypes DEF Seal
<1> QED
  BY <1>1, <1>2 DEF SealInv, OneCall, OwnSeal, FreshUnsealed, SealTells, Idle, Unfinished

\* The digest of a file is that of the file.
LEMMA SealHashed ==
  ASSUME TypeOK, SealInv, NEW c \in DOMAIN seal, SealFile(c)
  PROVE  SealInv'
<1> USE DEF SealInv
<1>1. UNCHANGED <<transfers, completing, verifying, fresh, partial>> /\ Unfinished(c)
  BY DEF SealFile, memory, disk, Unfinished
<1>2. PICK id \in Ids : id = seal[c].id
  BY SealTypes
<1> DEFINE digest == IF partial[id].exists THEN partial[id].blocks ELSE IoError
<1>3. seal' = [seal EXCEPT ![c] = [seal[c] EXCEPT !.stage = "hashed", !.digest = digest]]
  BY <1>2 DEF SealFile
<1>4. /\ DOMAIN seal' = DOMAIN seal
      /\ \A d \in DOMAIN seal : seal'[d].id = seal[d].id /\ (d # c => seal'[d] = seal[d])
      /\ seal'[c].digest = digest
  BY <1>3, SealTypes DEF Seal
<1>5. OneCall' /\ FreshUnsealed'
  BY <1>1, <1>4 DEF OneCall, FreshUnsealed, Unsealed, Unfinished
<1>6. OwnSeal'
  <2>1. \A d \in DOMAIN seal : seal'[d].stage \in {"running", "hashed"} => Unfinished(d)
    BY <1>1, <1>4 DEF Unfinished
  <2> QED
    BY <1>1, <1>4, <2>1 DEF OwnSeal, Unfinished
<1>7. SealTells'
  <2> SUFFICES ASSUME NEW d \in DOMAIN seal, seal'[d].stage = "hashed",
                      transfers[seal[d].id].live, seal'[d].digest # IoError
               PROVE  partial[seal[d].id].exists /\ seal'[d].digest = partial[seal[d].id].blocks
    BY <1>1, <1>4 DEF SealTells
  <2>1. CASE d = c
    BY <1>2, <1>4, <2>1
  <2>2. CASE d # c
    BY <1>4, <2>2 DEF SealTells
  <2> QED
    BY <2>1, <2>2
<1> QED
  BY <1>5, <1>6, <1>7

\* The command of a seal answers the call that the seal was started for, and a
\* transfer begun anew after a failed check has nothing else being hashed.
LEMMA SealReport ==
  ASSUME TypeOK, PendingInv, SealInv, NEW c \in DOMAIN seal, HashCompleted(c) \/ BeginVerified(c)
  PROVE  SealInv'
<1> USE DEF SealInv
<1>a. PICK id \in Ids : id = seal[c].id
  BY SealTypes
<1>b. /\ ~ fresh.busy /\ seal[c].stage = "hashed" /\ Finished(c)
  BY DEF HashCompleted, BeginVerified, Ready
<1>c. /\ DOMAIN seal' = DOMAIN seal
      /\ \A d \in DOMAIN seal : /\ seal'[d].id = seal[d].id /\ seal'[d].digest = seal[d].digest
                                /\ d # c => seal'[d].stage = seal[d].stage
      /\ seal'[c].stage = "finished"
  BY <1>b, TypeParts, SealFinished
<1>d. /\ \A j \in Ids \ {id} : /\ transfers'[j] = transfers[j]
                               /\ completing'[j] = completing[j] /\ verifying'[j] = verifying[j]
      /\ transfers'[id].live => transfers[id].live
  <2>1. \A j \in Ids \ {id} : transfers'[j] = transfers[j]
    BY <1>a, SealTransfers
  <2>2. \/ transfers'[id] = Absent \/ transfers'[id] = transfers[id]
        \/ transfers'[id] = [transfers[id] EXCEPT !.complete = TRUE]
    BY <1>a, SealTransfers
  <2>3. transfers[id] \in Transfer
    BY SealTypes
  <2>4. transfers'[id].live => transfers[id].live
    BY <2>2, <2>3 DEF Transfer, Absent
  <2>5. \A j \in Ids \ {id} : completing'[j] = completing[j] /\ verifying'[j] = verifying[j]
    BY <1>a, SealTypes DEF HashCompleted, BeginVerified
  <2> QED
    BY <2>1, <2>4, <2>5
\* The call that the seal was started for has its seal; no other seal of the id.
<1>e. transfers[id].live => \A d \in DOMAIN seal : Unfinished(d) /\ seal[d].id = id => d = c
  <2> SUFFICES ASSUME transfers[id].live, NEW d \in DOMAIN seal, Unfinished(d), seal[d].id = id
               PROVE  d = c
    OBVIOUS
  <2>1. c \in {completing[id], verifying[id]} /\ d \in {completing[id], verifying[id]}
    BY <1>a, <1>b DEF OwnSeal, Unfinished
  <2>2. NoCall \notin {c, d}
    BY PendingIndex DEF PendingInv
  <2> QED
    BY <2>1, <2>2 DEF OneCall
<1>f. \A j \in Ids : /\ completing'[j] \in {completing[j], NoCall}
                     /\ verifying'[j] \in {verifying[j], NoCall}
  <2>1. /\ completing' \in {completing, [completing EXCEPT ![id] = NoCall]}
        /\ verifying' \in {verifying, [verifying EXCEPT ![id] = NoCall]}
    BY <1>a DEF HashCompleted, BeginVerified
  <2> QED
    BY <2>1, SealTypes
<1>g. /\ \A j \in Ids \ {id} : partial'[j] = partial[j]
      /\ partial'[id] = partial[id] \/ ~ transfers'[id].live
  <2>1. CASE HashCompleted(c)
    BY <2>1 DEF HashCompleted
  <2>2. CASE BeginVerified(c)
    <3>1. \/ UNCHANGED partial
          \/ transfers' = [transfers EXCEPT ![id] = Absent] /\ partial' = [partial EXCEPT ![id] = Missing]
      BY <1>a, <2>2 DEF BeginVerified, disk
    <3> QED
      BY <3>1, SealTypes DEF Absent
  <2> QED
    BY <2>1, <2>2
<1>1. OneCall'
  BY <1>f DEF OneCall
<1>2. FreshUnsealed'
  <2>1. CASE fresh' = fresh
    BY <1>b, <2>1 DEF FreshUnsealed
  <2>2. CASE fresh'.id = id /\ verifying[id] # NoCall
    <3>1. transfers[id].live
      BY <2>2 DEF PendingInv, PendingHasSeal
    <3> QED
      BY <1>c, <1>e, <2>2, <3>1 DEF FreshUnsealed, Unsealed, Unfinished
  <2> QED
    BY <1>a, <2>1, <2>2 DEF HashCompleted, BeginVerified
<1>3. OwnSeal'
  <2> SUFFICES ASSUME NEW d \in DOMAIN seal, seal'[d].stage \in {"running", "hashed"},
                      transfers'[seal[d].id].live
               PROVE  d \in {completing'[seal[d].id], verifying'[seal[d].id]}
    BY <1>c DEF OwnSeal, Unfinished
  <2>1. d # c /\ Unfinished(d)
    BY <1>c DEF Unfinished
  <2>2. seal[d].id # id
    BY <1>d, <1>e, <2>1
  <2> QED
    BY <1>d, <2>1, <2>2, SealTypes DEF OwnSeal
<1>4. SealTells'
  <2> SUFFICES ASSUME NEW d \in DOMAIN seal, seal'[d].stage = "hashed",
                      transfers'[seal[d].id].live, seal[d].digest # IoError
               PROVE  partial'[seal[d].id].exists /\ seal[d].digest = partial'[seal[d].id].blocks
    BY <1>c DEF SealTells
  <2>1. d # c /\ seal[d].stage = "hashed"
    BY <1>c
  <2>2. seal[d].id # id
    BY <1>d, <1>e, <2>1 DEF Unfinished
  <2> QED
    BY <1>d, <1>g, <2>1, <2>2, SealTypes DEF SealTells
<1> QED
  BY <1>1, <1>2, <1>3, <1>4

LEMMA SealStep ==
  ASSUME ~ LateSeals, ChunksHaveBlocks, TypeOK, PendingInv, SealInv, [Next]_vars
  PROVE  SealInv'
<1>1. CASE UNCHANGED vars
  BY <1>1 DEF vars, SealInv, OneCall, OwnSeal, FreshUnsealed, Unsealed, SealTells, Unfinished
<1>2. ASSUME NEW id \in Ids, Evict(id)
      PROVE  SealInv'
  BY <1>2, SealDrop DEF Evict
<1> QED
  BY <1>1, <1>2, SealCommands, SealBegin, SealCrash, SealHashed, SealReport DEF Next

LEMMA SealInvariant ==
  ASSUME ~ LateSeals, ChunksHaveBlocks
  PROVE  Spec => [](TypeOK /\ PendingInv /\ SealInv)
<1>1. Init => SealInv
  BY SealInit
<1>2. TypeOK /\ PendingInv /\ SealInv /\ [Next]_vars => SealInv'
  BY SealStep
<1> QED
  BY <1>1, <1>2, PendingInvariant, PTL DEF Spec

-----------------------------------------------------------------------------
(* What a caller is told.                                                    *)

\* A seal that is handled for a caller belongs to that caller, and its digest is
\* that of the file.
LEMMA SealIsOwn ==
  ASSUME TypeOK, PendingInv, SealInv, NEW c \in DOMAIN seal, seal[c].stage = "hashed"
  PROVE  /\ seal[c].kind = "hash" /\ completing[seal[c].id] # NoCall => completing[seal[c].id] = c
         /\ seal[c].kind = "verify" /\ verifying[seal[c].id] # NoCall => verifying[seal[c].id] = c
         /\ Unsettled(seal[c].id) /\ seal[c].digest # IoError
              => /\ partial[seal[c].id].exists
                 /\ seal[c].digest = partial[seal[c].id].blocks
<1>1. PICK id \in Ids : id = seal[c].id
  BY SealTypes
<1>2. /\ completing[id] # NoCall \/ verifying[id] # NoCall => transfers[id].live
      /\ completing[id] # NoCall => seal[completing[id]].kind = "hash"
      /\ verifying[id] # NoCall => seal[verifying[id]].kind = "verify"
  BY DEF PendingInv, PendingHasSeal, AwaitsSeal
<1>3. transfers[id].live => c \in {completing[id], verifying[id]}
  BY <1>1 DEF SealInv, OwnSeal, Unfinished
<1>4. c # NoCall
  BY PendingIndex DEF PendingInv
<1> QED
  BY <1>1, <1>2, <1>3, <1>4 DEF SealInv, SealTells, Unsettled

LEMMA CompletedAnswer ==
  ASSUME TypeOK, PendingInv, [Next]_vars,
         NEW c \in DOMAIN answer, answer[c] # "complete", answer'[c] = "complete"
  PROVE  \E d \in DOMAIN seal :
           /\ HashCompleted(d) \/ BeginVerified(d)
           /\ \E w \in {completing[seal[d].id], verifying[seal[d].id]} :
                answer' = Settled(answer, w, "complete")
<1>1. answer \in Seq(Answers) /\ NoCall \notin DOMAIN answer
  BY SealTypes, PendingIndex DEF PendingInv
<1>2. {"io", "mismatch", "abandoned", "restarted", "dropped"} \subseteq Answers \ {"complete"}
  BY DEF Answers
<1>3. ASSUME NEW ans \in Seq(Answers), NEW w \in Call \union {NoCall}, NEW what \in Answers \ {"complete"},
             DOMAIN ans = DOMAIN answer, ans[c] # "complete"
      PROVE  /\ Settled(ans, w, what) \in Seq(Answers)
             /\ DOMAIN Settled(ans, w, what) = DOMAIN answer
             /\ Settled(ans, w, what)[c] # "complete"
  <2>1. /\ Settled(ans, w, what) \in Seq(Answers)
        /\ Len(Settled(ans, w, what)) = Len(ans)
        /\ DOMAIN Settled(ans, w, what) = DOMAIN ans
        /\ \A d \in DOMAIN ans : d # w => Settled(ans, w, what)[d] = ans[d]
        /\ w \in DOMAIN ans => Settled(ans, w, what)[w] = what
    BY SettledAnswers
  <2> QED
    BY <1>3, <2>1
<1>4. answer' # answer
  OBVIOUS
<1>5. \A w \in Call \union {NoCall} : \A what \in Answers \ {"complete"} :
        answer' # Settled(answer, w, what)
  BY <1>1, <1>3
<1>6. ASSUME NEW id \in Ids, NEW kind \in {"hash", "verify"}, NEW settled \in Seq(Answers),
             DOMAIN settled = DOMAIN answer, settled[c] # "complete", StartSeal(kind, id, settled)
      PROVE  FALSE
  <2>1. SealType
    BY TypeParts
  <2>2. \A d \in DOMAIN settled : answer'[d] = settled[d]
    BY <1>6, <2>1, SealStarted
  <2> QED
    BY <1>6, <2>2
<1>7. ASSUME NEW id \in Ids
      PROVE  completing[id] \in Call \union {NoCall} /\ verifying[id] \in Call \union {NoCall}
  BY SealTypes
<1>8. ASSUME NEW id \in Ids, Drop(id, answer)
      PROVE  FALSE
  <2> DEFINE once == Settled(answer, completing[id], "abandoned")
  <2>1. once \in Seq(Answers) /\ DOMAIN once = DOMAIN answer /\ once[c] # "complete"
    BY <1>1, <1>2, <1>3, <1>7
  <2>2. answer' = Settled(once, verifying[id], "abandoned")
    BY <1>8 DEF Drop
  <2> HIDE DEF once
  <2>3. Settled(once, verifying[id], "abandoned")[c] # "complete"
    BY <1>2, <1>3, <1>7, <2>1
  <2> QED
    BY <2>2, <2>3
<1>9. ASSUME NEW id \in Ids, Commands(id) \/ Evict(id) \/ Recover(id)
      PROVE  FALSE
  <2>1. CASE Abandon(id) \/ Evict(id)
    BY <1>8, <2>1 DEF Abandon, Evict
  <2>2. CASE BeginVerify(id)
    BY <1>1, <1>6, <2>2 DEF BeginVerify
  <2>3. ASSUME NEW blocks \in Chunks, AcceptChunk(id, blocks)
        PROVE  FALSE
    <3> DEFINE settled == Settled(answer, completing[id], "dropped")
    <3>1. settled \in Seq(Answers) /\ DOMAIN settled = DOMAIN answer /\ settled[c] # "complete"
      BY <1>1, <1>2, <1>3, <1>7
    <3>2. answer' = answer \/ StartSeal("hash", id, settled)
      BY <2>3 DEF AcceptChunk
    <3> HIDE DEF settled
    <3> QED
      BY <1>4, <1>6, <3>1, <3>2
  <2>4. CASE \/ Take(id) \/ Recover(id) \/ \E a \in Artifacts : BeginFresh(id, a)
             \/ \E blocks \in Chunks : FailChunk(id, blocks)
    BY <1>4, <2>4 DEF Take, Recover, BeginFresh, FailChunk
  <2> QED
    BY <1>9, <2>1, <2>2, <2>3, <2>4 DEF Commands
<1>a. ASSUME FinishFresh \/ FailFresh
      PROVE  FALSE
  <2>1. fresh.call \in Call \union {NoCall}
    BY SealTypes DEF FreshCall
  <2> QED
    BY <1>2, <1>5, <1>a, <2>1 DEF FinishFresh, FailFresh
<1>b. ASSUME Crash
      PROVE  FALSE
  BY <1>b DEF Crash
<1>c. ASSUME NEW d \in DOMAIN seal, SealFile(d)
      PROVE  FALSE
  BY <1>4, <1>c DEF SealFile
<1>d. ASSUME NEW d \in DOMAIN seal, HashCompleted(d) \/ BeginVerified(d)
      PROVE  \E w \in {completing[seal[d].id], verifying[seal[d].id]} :
               answer' = Settled(answer, w, "complete")
  <2>1. PICK id \in Ids : id = seal[d].id
    BY SealTypes
  <2>2. \/ answer' = answer
        \/ \E w \in {completing[id], verifying[id]} :
             \E what \in {"complete", "mismatch", "io", "abandoned"} : answer' = Settled(answer, w, what)
    BY <1>d, <2>1 DEF HashCompleted, BeginVerified
  <2> QED
    BY <1>2, <1>4, <1>5, <1>7, <2>1, <2>2
<1> QED
  BY <1>4, <1>9, <1>a, <1>b, <1>c, <1>d DEF Next, vars

\* The file of call c is the one its caller described.
Described(c) ==
  /\ partial[seal[c].id].exists
  /\ Matches(partial[seal[c].id].blocks, transfers[seal[c].id].sha)

LEMMA AnsweredStep ==
  ASSUME TypeOK, PendingInv, SealInv, [Next]_vars,
         NEW c \in DOMAIN answer, answer[c] # "complete", answer'[c] = "complete"
  PROVE  Described(c)
<1>1. PICK d \in DOMAIN seal :
        /\ HashCompleted(d) \/ BeginVerified(d)
        /\ \E w \in {completing[seal[d].id], verifying[seal[d].id]} :
             answer' = Settled(answer, w, "complete")
  BY CompletedAnswer
<1>2. PICK id \in Ids : id = seal[d].id
  BY SealTypes
<1>3. /\ completing[id] \in Call \union {NoCall} /\ verifying[id] \in Call \union {NoCall}
      /\ answer \in Seq(Answers) /\ seal[d].stage = "hashed" /\ seal[d].kind \in {"hash", "verify"}
  <2>1. seal[d] \in Seal
    BY SealTypes
  <2> QED
    BY <1>1, <2>1, SealTypes DEF HashCompleted, BeginVerified, Seal
\* The answer is that of the call that the seal was started for.
<1>4. \A w \in Call \union {NoCall} : \A what \in Answers :
        answer' = Settled(answer, w, what) => w = c /\ what = "complete"
  <2> SUFFICES ASSUME NEW w \in Call \union {NoCall}, NEW what \in Answers,
                      answer' = Settled(answer, w, what)
               PROVE  w = c /\ what = "complete"
    OBVIOUS
  <2>1. /\ Settled(answer, w, what) \in Seq(Answers)
        /\ Len(Settled(answer, w, what)) = Len(answer)
        /\ DOMAIN Settled(answer, w, what) = DOMAIN answer
        /\ \A e \in DOMAIN answer : e # w => Settled(answer, w, what)[e] = answer[e]
        /\ w \in DOMAIN answer => Settled(answer, w, what)[w] = what
    BY <1>3, SettledAnswers
  <2> QED
    BY <2>1
<1>5. {"io", "mismatch", "complete", "abandoned"} \subseteq Answers /\ c # NoCall
  <2>1. c # NoCall
    BY PendingIndex DEF PendingInv
  <2> QED
    BY <2>1 DEF Answers
<1>6. answer' # answer
  OBVIOUS
<1>7. seal[d].digest # IoError /\ Matches(seal[d].digest, transfers[id].sha)
      /\ \/ seal[d].kind = "hash" /\ completing[id] = c
         \/ seal[d].kind = "verify" /\ verifying[id] = c
  <2>1. CASE HashCompleted(d)
    <3>1. \/ answer' = answer
          \/ answer' = Settled(answer, completing[id], "io")
          \/ answer' = Settled(answer, completing[id], "mismatch")
          \/ /\ answer' = Settled(answer, completing[id], "complete")
             /\ seal[d].digest # IoError /\ Matches(seal[d].digest, transfers[id].sha)
      BY <1>2, <2>1 DEF HashCompleted
    <3> QED
      BY <1>3, <1>4, <1>5, <1>6, <2>1, <3>1 DEF HashCompleted
  <2>2. CASE BeginVerified(d)
    <3>1. \/ answer' = Settled(answer, verifying[id], "io")
          \/ answer' = Settled(answer, completing[id], "abandoned")
          \/ /\ answer' = Settled(answer, verifying[id], "complete")
             /\ seal[d].digest # IoError /\ Matches(seal[d].digest, transfers[id].sha)
      BY <1>2, <2>2 DEF BeginVerified
    <3> QED
      BY <1>3, <1>4, <1>5, <2>2, <3>1 DEF BeginVerified
  <2> QED
    BY <1>1, <2>1, <2>2
<1>8. Unsettled(id) /\ d = c
  BY <1>2, <1>3, <1>5, <1>7, SealIsOwn DEF Unsettled
<1> QED
  BY <1>2, <1>3, <1>7, <1>8, SealIsOwn DEF Described

\* Nobody is told that its file is complete unless the file on the disk is the
\* one described: not for the digest of another caller's seal, of a file that
\* was written to after it was hashed, or of one that the id no longer has
\* (handle_hash_completed, handle_begin_verified).
THEOREM StoreAnsweredByVerifiedFile ==
  ASSUME ~ LateSeals, ChunksHaveBlocks
  PROVE  Spec => AnsweredByVerifiedFile
<1> DEFINE Told ==
      \A c \in DOMAIN answer :
        answer[c] # "complete" /\ answer'[c] = "complete"
          => LET id == seal[c].id IN
             partial[id].exists /\ Matches(partial[id].blocks, transfers[id].sha)
<1>1. TypeOK /\ PendingInv /\ SealInv /\ [Next]_vars => Told
  BY AnsweredStep DEF Described
<1>2. TypeOK /\ PendingInv /\ SealInv /\ [Next]_vars => [Told]_vars
  BY <1>1
<1>3. Spec => [](TypeOK /\ PendingInv /\ SealInv)
  BY SealInvariant
<1>4. AnsweredByVerifiedFile <=> [][Told]_vars
  BY DEF AnsweredByVerifiedFile
<1> HIDE DEF Told
<1> QED
  BY <1>2, <1>3, <1>4, PTL DEF Spec

-----------------------------------------------------------------------------
(* What a complete transfer is.                                              *)

\* A caller gives the size and the hash of one file.
ArtifactsFit == \A a \in Artifacts : a.sha # NoHash => Len(a.sha) = a.size

Fitting(r) == r.sha # NoHash => Len(r.sha) = r.size

AllFit ==
  /\ \A id \in Ids : Fitting(transfers[id]) /\ Fitting(meta[id])
  /\ Fitting(fresh)

CompleteIsLive == \A id \in Ids : transfers[id].complete => transfers[id].live

BootIsRestart == booting # {} => crashes > 0

\* A sidecar that says complete is that of a complete transfer.
Agrees(m, t) == m.complete => t.complete /\ m.size = t.size /\ m.sha = t.sha
SidecarAgrees == crashes = 0 => \A id \in Ids : Agrees(meta[id], transfers[id])

\* A sidecar that says complete, and that bootstrap is about to read, is right
\* about a file that is long enough.
Tells(m, f) == m.complete /\ f.exists /\ Len(f.blocks) >= m.size => Matches(f.blocks, m.sha)
SidecarTells == crashes = 1 => \A id \in booting : Tells(meta[id], partial[id])

FileInv ==
  /\ AllFit /\ CompleteIsLive /\ BootIsRestart /\ SidecarAgrees /\ SidecarTells
  /\ CompleteIsVerified

LEMMA FileInit == Init => FileInv
BY RecordTypes DEF Init, FileInv, AllFit, Fitting, CompleteIsLive, BootIsRestart, SidecarAgrees, Agrees,
   SidecarTells, CompleteIsVerified, Absent, NoMeta, Missing, Idle

\* A step that concerns one id and is not a restart.
LEMMA FileElsewhere ==
  ASSUME TypeOK, FileInv, crashes' = crashes, NEW id \in Ids, booting' \subseteq booting,
         \A j \in Ids \ {id} : /\ transfers'[j] = transfers[j] /\ partial'[j] = partial[j]
                               /\ meta'[j] = meta[j],
         Fitting(transfers'[id]), Fitting(meta'[id]), Fitting(fresh'),
         transfers'[id].complete => transfers'[id].live,
         crashes = 0 => Agrees(meta'[id], transfers'[id]),
         id \notin booting',
         crashes < 2 /\ transfers'[id].complete /\ partial'[id].exists
            => Matches(partial'[id].blocks, transfers'[id].sha)
  PROVE  FileInv'
<1> USE DEF FileInv
<1>1. AllFit'
  BY DEF AllFit, Fitting
<1>2. CompleteIsLive' /\ BootIsRestart'
  BY DEF CompleteIsLive, BootIsRestart
<1>3. SidecarAgrees'
  BY DEF SidecarAgrees, Agrees, BootIsRestart
<1>4. SidecarTells'
  <2>1. booting \subseteq Ids
    BY TypeParts DEF MemoryType
  <2> QED
    BY <2>1 DEF SidecarTells, Tells
<1>5. CompleteIsVerified'
  BY DEF CompleteIsVerified
<1> QED
  BY <1>1, <1>2, <1>3, <1>4, <1>5

\* What the invariant says of one id between two commands.
LEMMA FileOne ==
  ASSUME FileInv, NEW id \in Ids
  PROVE  /\ Fitting(transfers[id]) /\ Fitting(meta[id]) /\ Fitting(fresh)
         /\ transfers[id].complete => transfers[id].live
         /\ crashes = 0 => Agrees(meta[id], transfers[id])
         /\ crashes < 2 /\ transfers[id].complete /\ partial[id].exists
              => Matches(partial[id].blocks, transfers[id].sha)
BY DEF FileInv, AllFit, CompleteIsLive, SidecarAgrees, CompleteIsVerified

LEMMA FileTypes ==
  ASSUME TypeOK
  PROVE  /\ transfers \in [Ids -> Transfer] /\ partial \in [Ids -> TransferFile]
         /\ meta \in [Ids -> TransferMeta] /\ crashes \in Nat /\ booting \subseteq Ids
BY TypeParts DEF MemoryType, DiskType, CountType

\* Abandon and eviction.
LEMMA FileDrop ==
  ASSUME TypeOK, PendingInv, FileInv, NEW id \in Ids, Drop(id, answer), booting = {},
         UNCHANGED <<booting, fresh, crashes>>
  PROVE  FileInv'
<1>1. /\ transfers'[id] = Absent /\ partial'[id] = Missing /\ meta'[id] = NoMeta
      /\ \A j \in Ids \ {id} : /\ transfers'[j] = transfers[j] /\ partial'[j] = partial[j]
                               /\ meta'[j] = meta[j]
  BY FileTypes DEF Drop
<1>2. /\ Fitting(transfers'[id]) /\ Fitting(meta'[id]) /\ ~ transfers'[id].complete /\ ~ meta'[id].complete
  BY <1>1 DEF Fitting, Absent, NoMeta
<1>3. Fitting(fresh')
  BY FileOne DEF Fitting
<1> QED
  BY <1>1, <1>2, <1>3, FileElsewhere DEF Agrees

\* A step between two commands that leaves the transfers and sidecars alone.
LEMMA FileOnly ==
  ASSUME TypeOK, FileInv, NEW id \in Ids, booting = {},
         UNCHANGED <<transfers, meta, booting, crashes>>, Fitting(fresh'),
         \A j \in Ids \ {id} : partial'[j] = partial[j],
         partial'[id] = partial[id] \/ ~ transfers[id].complete \/ ~ partial'[id].exists
  PROVE  FileInv'
<1>1. /\ Fitting(transfers[id]) /\ Fitting(meta[id])
      /\ transfers[id].complete => transfers[id].live
      /\ crashes = 0 => Agrees(meta[id], transfers[id])
      /\ crashes < 2 /\ transfers[id].complete /\ partial[id].exists
           => Matches(partial[id].blocks, transfers[id].sha)
  BY FileOne
<1> QED
  BY <1>1, FileElsewhere

\* A chunk, written or failed.
LEMMA FileChunk ==
  ASSUME TypeOK, PendingInv, FileInv, ChunksHaveBlocks, NEW id \in Ids, NEW blocks \in Chunks,
         AcceptChunk(id, blocks) \/ FailChunk(id, blocks)
  PROVE  FileInv'
<1>1. ~ transfers[id].complete /\ booting = {} /\ UNCHANGED <<booting, meta, fresh, crashes>>
  BY ChunkUnsettled DEF AcceptChunk, FailChunk, Ready
<1> DEFINE received == transfers[id].received + Len(blocks)
<1>2. transfers' = transfers \/ transfers' = [transfers EXCEPT ![id].received = received]
  BY DEF AcceptChunk, FailChunk
<1>3. \A j \in Ids \ {id} : partial'[j] = partial[j]
  <2>1. CASE AcceptChunk(id, blocks)
    BY <2>1, FileTypes DEF AcceptChunk
  <2>2. CASE FailChunk(id, blocks)
    BY <2>2, FileTypes DEF FailChunk
  <2> QED
    BY <2>1, <2>2
<1> HIDE DEF received
<1>4. transfers \in [Ids -> Transfer]
  BY FileTypes
<1>5. /\ \A j \in Ids \ {id} : transfers'[j] = transfers[j]
      /\ transfers'[id].complete = transfers[id].complete
      /\ transfers'[id].size = transfers[id].size /\ transfers'[id].sha = transfers[id].sha
  <2>1. CASE transfers' = [transfers EXCEPT ![id].received = received]
    BY <1>4, <2>1 DEF Transfer
  <2> QED
    BY <1>2, <2>1
<1>6. /\ Fitting(transfers[id]) /\ Fitting(meta[id]) /\ Fitting(fresh)
      /\ crashes = 0 => Agrees(meta[id], transfers[id])
  BY FileOne
<1>7. /\ Fitting(transfers'[id]) /\ Fitting(meta'[id]) /\ Fitting(fresh')
      /\ crashes = 0 => Agrees(meta'[id], transfers'[id])
  BY <1>1, <1>5, <1>6 DEF Fitting, Agrees
<1> QED
  BY <1>1, <1>3, <1>5, <1>7, FileElsewhere

\* The other calls of one id.
LEMMA FileCommands ==
  ASSUME TypeOK, PendingInv, SealInv, FileInv, ArtifactsFit, ChunksHaveBlocks,
         NEW id \in Ids, Commands(id)
  PROVE  FileInv'
<1>1. CASE Abandon(id)
  BY <1>1, FileDrop DEF Abandon, Ready
<1>2. CASE BeginVerify(id)
  <2>1. booting = {} /\ UNCHANGED <<transfers, meta, partial, fresh, booting, crashes>>
    BY <1>2 DEF BeginVerify, Ready, disk
  <2> QED
    BY <2>1, FileOne, FileOnly
<1>3. CASE Take(id)
  <2>1. /\ booting = {} /\ UNCHANGED <<transfers, meta, fresh, booting, crashes>>
        /\ \A j \in Ids \ {id} : partial'[j] = partial[j]
        /\ ~ partial'[id].exists
    BY <1>3, FileTypes DEF Take, Ready, memory, Missing
  <2> QED
    BY <2>1, FileOne, FileOnly
<1>4. ASSUME NEW a \in Artifacts, BeginFresh(id, a)
      PROVE  FileInv'
  <2>1. booting = {} /\ UNCHANGED <<transfers, meta, partial, booting, crashes>>
    BY <1>4 DEF BeginFresh, Ready, memory, disk
  <2>2. Fitting(fresh')
    BY <1>4 DEF BeginFresh, ArtifactsFit, Fitting
  <2> QED
    BY <2>1, <2>2, FileOnly
<1> QED
  BY <1>1, <1>2, <1>3, <1>4, FileChunk DEF Commands

\* The end of begin_fresh.
LEMMA FileFresh ==
  ASSUME TypeOK, PendingInv, FileInv, FinishFresh \/ FailFresh
  PROVE  FileInv'
<1>1. PICK id \in Ids : id = fresh.id
  BY SealTypes
<1>2. /\ booting = {} /\ ~ transfers[id].live /\ UNCHANGED <<booting, crashes>> /\ fresh' = Idle
  BY <1>1 DEF PendingInv, FreshIsAbsent, FinishFresh, FailFresh, memory
<1>3. /\ Fitting(fresh) /\ Fitting(fresh') /\ ~ transfers[id].complete
  BY <1>2, FileOne DEF Fitting, Idle
<1>4. CASE FinishFresh
  <2> DEFINE t == [size |-> fresh.size, sha |-> fresh.sha, received |-> 0, complete |-> FALSE, live |-> TRUE]
  <2>1. /\ transfers' = [transfers EXCEPT ![id] = t] /\ meta' = [meta EXCEPT ![id] = Meta(t)]
        /\ partial' = [partial EXCEPT ![id] = File(<<>>)]
    BY <1>1, <1>4 DEF FinishFresh
  <2>2. Fitting(t) /\ Fitting(Meta(t)) /\ ~ t.complete /\ ~ Meta(t).complete
    BY <1>3 DEF Fitting, Meta
  <2> HIDE DEF t
  <2>3. /\ transfers'[id] = t /\ meta'[id] = Meta(t)
        /\ \A j \in Ids \ {id} : /\ transfers'[j] = transfers[j] /\ partial'[j] = partial[j]
                                 /\ meta'[j] = meta[j]
    BY <2>1, FileTypes
  <2> QED
    BY <1>2, <1>3, <2>2, <2>3, FileElsewhere DEF Agrees
<1>5. CASE FailFresh
  <2>1. /\ UNCHANGED <<transfers, meta>> /\ \A j \in Ids \ {id} : partial'[j] = partial[j]
    BY <1>1, <1>5, FileTypes DEF FailFresh, memory
  <2> QED
    BY <1>2, <1>3, <2>1, FileOnly
<1> QED
  BY <1>4, <1>5

\* A file that is what its sidecar describes, and long enough, is not cut.
LEMMA WholeFile ==
  ASSUME NEW f \in TransferFile, NEW r, Fitting(r), r.size \in Nat, Matches(f.blocks, r.sha),
         NEW n \in 0..Len(f.blocks), n >= r.size
  PROVE  Matches(Torn(f, n).blocks, r.sha)
<1>1. CASE r.sha = NoHash
  BY <1>1 DEF Matches
<1>2. CASE r.sha # NoHash
  <2>1. f.blocks = r.sha /\ Len(f.blocks) = r.size
    BY <1>2 DEF Matches, Fitting
  <2>2. Len(f.blocks) \in Nat
    BY LenProperties DEF TransferFile, Content
  <2>3. n = Len(f.blocks)
    BY <2>1, <2>2
  <2>4. Torn(f, n) = f
    BY <2>3, TornFile
  <2> QED
    BY <2>4
<1> QED
  BY <1>1, <1>2

\* One id of bootstrap.
LEMMA FileRecover ==
  ASSUME TypeOK, PendingInv, FileInv, NEW id \in Ids, Recover(id)
  PROVE  FileInv'
<1>1. /\ id \in booting /\ booting' = booting \ {id} /\ UNCHANGED <<fresh, crashes>>
      /\ crashes > 0
  BY DEF Recover, FileInv, BootIsRestart
<1>2. /\ partial[id] \in TransferFile /\ meta[id] \in TransferMeta /\ crashes \in Nat
      /\ meta[id].size \in Nat /\ Len(partial[id].blocks) \in Nat
  <2>1. partial[id] \in TransferFile /\ meta[id] \in TransferMeta /\ crashes \in Nat
    BY FileTypes
  <2> QED
    BY <2>1, LenProperties DEF TransferFile, TransferMeta, Content
<1>3. /\ Fitting(meta[id]) /\ Fitting(transfers[id]) /\ Fitting(fresh)
      /\ transfers[id].complete => transfers[id].live
  BY FileOne
<1>4. ~ transfers[id].complete
  BY <1>1, <1>3 DEF PendingInv, BootIsQuiet
<1>5. CASE meta[id].exists /\ partial[id].exists
  <2> DEFINE kept == Least(Len(partial[id].blocks), meta[id].size)
             t == Recovered(partial[id], meta[id])
  <2>1. /\ transfers' = [transfers EXCEPT ![id] = t] /\ meta' = meta
        /\ partial' = [partial EXCEPT ![id] = Torn(partial[id], kept)]
    BY <1>1, <1>5 DEF Recover
  <2>2. /\ t.live /\ t.size = meta[id].size /\ t.sha = meta[id].sha
        /\ t.complete <=> meta[id].complete /\ kept = meta[id].size
    BY DEF Recovered
  <2>3. /\ kept \in 0..Len(partial[id].blocks)
        /\ kept = meta[id].size => Len(partial[id].blocks) >= meta[id].size
    BY <1>2 DEF Least
  <2> HIDE DEF t, kept
  <2>4. /\ transfers'[id] = t /\ partial'[id] = Torn(partial[id], kept)
        /\ \A j \in Ids \ {id} : /\ transfers'[j] = transfers[j] /\ partial'[j] = partial[j]
                                 /\ meta'[j] = meta[j]
    BY <2>1, FileTypes
  <2>5. crashes < 2 /\ t.complete => Matches(Torn(partial[id], kept).blocks, t.sha)
    <3> SUFFICES ASSUME crashes < 2, t.complete
                 PROVE  Matches(Torn(partial[id], kept).blocks, t.sha)
      OBVIOUS
    <3>1. crashes = 1 /\ kept = meta[id].size /\ meta[id].complete
      BY <1>1, <1>2, <2>2
    <3>2. Tells(meta[id], partial[id])
      BY <1>1, <3>1 DEF FileInv, SidecarTells
    <3>3. Matches(partial[id].blocks, meta[id].sha)
      BY <1>5, <2>3, <3>1, <3>2 DEF Tells
    <3>4. kept >= meta[id].size
      BY <1>2, <3>1
    <3>5. Matches(Torn(partial[id], kept).blocks, meta[id].sha)
      BY <1>2, <1>3, <2>3, <3>3, <3>4, WholeFile
    <3> QED
      BY <2>2, <3>5
  <2>6. Fitting(transfers'[id]) /\ Fitting(meta'[id]) /\ Fitting(fresh')
    BY <1>1, <1>3, <2>1, <2>2, <2>4 DEF Fitting
  <2>7. /\ transfers'[id].complete => transfers'[id].live
        /\ crashes = 0 => Agrees(meta'[id], transfers'[id])
        /\ id \notin booting' /\ booting' \subseteq booting
        /\ crashes < 2 /\ transfers'[id].complete /\ partial'[id].exists
             => Matches(partial'[id].blocks, transfers'[id].sha)
    BY <1>1, <1>2, <2>2, <2>4, <2>5
  <2> QED
    BY <1>1, <2>4, <2>6, <2>7, FileElsewhere
<1>6. CASE ~ (meta[id].exists /\ partial[id].exists)
  <2>1. /\ transfers' = transfers /\ meta'[id] = NoMeta
        /\ \A j \in Ids \ {id} : partial'[j] = partial[j] /\ meta'[j] = meta[j]
    BY <1>6, FileTypes DEF Recover
  <2>2. Fitting(NoMeta) /\ ~ NoMeta.complete
    BY DEF Fitting, NoMeta
  <2> QED
    BY <1>1, <1>3, <1>4, <2>1, <2>2, FileElsewhere DEF Agrees
<1> QED
  BY <1>5, <1>6

\* A restart.
LEMMA FileCrash ==
  ASSUME TypeOK, FileInv, Crash
  PROVE  FileInv'
<1> USE DEF FileInv
<1>1. /\ transfers' = [id \in Ids |-> Absent] /\ fresh' = Idle /\ crashes' = crashes + 1
      /\ booting' = Ids
  BY DEF Crash
<1>a. PICK id \in Ids : \E n \in 0..Len(partial[id].blocks) : \E left \in {meta[id], NoMeta} :
        /\ partial' = [partial EXCEPT ![id] = Torn(partial[id], n)]
        /\ meta' = [meta EXCEPT ![id] = left]
  BY DEF Crash
<1>b. PICK n \in 0..Len(partial[id].blocks) : \E left \in {meta[id], NoMeta} :
        /\ partial' = [partial EXCEPT ![id] = Torn(partial[id], n)]
        /\ meta' = [meta EXCEPT ![id] = left]
  BY <1>a
<1>2. PICK left \in {meta[id], NoMeta} :
        /\ partial' = [partial EXCEPT ![id] = Torn(partial[id], n)]
        /\ meta' = [meta EXCEPT ![id] = left]
  BY <1>b
<1>3. /\ partial'[id] = Torn(partial[id], n) /\ meta'[id] \in {meta[id], NoMeta}
      /\ \A j \in Ids \ {id} : partial'[j] = partial[j] /\ meta'[j] = meta[j]
      /\ partial[id] \in TransferFile /\ crashes \in Nat
      /\ \A j \in Ids : transfers[j] \in Transfer
  BY <1>2, FileTypes
<1>4. Fitting(NoMeta) /\ Fitting(Absent) /\ Fitting(Idle) /\ ~ NoMeta.complete /\ ~ Absent.complete
  BY DEF Fitting, NoMeta, Absent, Idle
<1>5. AllFit'
  BY <1>1, <1>3, <1>4 DEF AllFit
<1>6. CompleteIsLive' /\ BootIsRestart' /\ SidecarAgrees' /\ CompleteIsVerified'
  BY <1>1, <1>3, <1>4 DEF CompleteIsLive, BootIsRestart, SidecarAgrees, CompleteIsVerified
<1>7. SidecarTells'
  <2> SUFFICES ASSUME crashes = 0, NEW j \in Ids, meta'[j].complete, partial'[j].exists,
                      Len(partial'[j].blocks) >= meta'[j].size
               PROVE  Matches(partial'[j].blocks, meta'[j].sha)
    BY <1>1, <1>3 DEF SidecarTells, Tells
  <2>1. meta'[j] = meta[j]
    BY <1>3, <1>4
  <2>2. /\ transfers[j].complete /\ meta[j].size = transfers[j].size /\ meta[j].sha = transfers[j].sha
    BY <2>1 DEF SidecarAgrees, Agrees
  <2>3. partial[j].exists
    BY <1>3, TornFile
  <2>4. Matches(partial[j].blocks, transfers[j].sha)
    BY <2>2, <2>3 DEF CompleteIsVerified
  <2>5. CASE j # id
    BY <1>3, <2>1, <2>2, <2>4, <2>5
  <2>6. CASE j = id
    <3>1. n >= transfers[id].size
      BY <1>3, <2>1, <2>2, <2>6, TornFile
    <3>2. Fitting(transfers[id]) /\ transfers[id].size \in Nat
      BY <1>3 DEF AllFit, Transfer
    <3>3. Matches(Torn(partial[id], n).blocks, transfers[id].sha)
      BY <1>3, <2>4, <2>6, <3>1, <3>2, WholeFile
    <3> QED
      BY <1>3, <2>1, <2>2, <2>6, <3>3
  <2> QED
    BY <2>5, <2>6
<1> QED
  BY <1>5, <1>6, <1>7

\* A transfer whose file is the one described is marked complete.
LEMMA FileMarked ==
  ASSUME TypeOK, FileInv, NEW id \in Ids, MarkComplete(id), transfers[id].live, booting = {},
         UNCHANGED <<partial, fresh, booting, crashes>>,
         Matches(partial[id].blocks, transfers[id].sha)
  PROVE  FileInv'
<1>1. transfers[id] \in Transfer /\ meta[id] \in TransferMeta
  BY FileTypes
<1> DEFINE t == [transfers[id] EXCEPT !.complete = TRUE]
<1>2. /\ t.complete /\ t.live /\ t.size = transfers[id].size /\ t.sha = transfers[id].sha
  BY <1>1 DEF Transfer
<1>3. transfers' = [transfers EXCEPT ![id] = t]
  BY DEF MarkComplete
<1>4. \E m \in {Meta(transfers'[id]), meta[id], NoMeta} : meta' = [meta EXCEPT ![id] = m]
  BY DEF MarkComplete
<1> HIDE DEF t
<1>5. /\ transfers'[id] = t /\ meta'[id] \in {Meta(t), meta[id], NoMeta}
      /\ \A j \in Ids \ {id} : transfers'[j] = transfers[j] /\ meta'[j] = meta[j]
  <2>1. transfers'[id] = t /\ \A j \in Ids \ {id} : transfers'[j] = transfers[j]
    BY <1>3, FileTypes
  <2>2. \E m \in {Meta(t), meta[id], NoMeta} : meta' = [meta EXCEPT ![id] = m]
    BY <1>4, <2>1
  <2>3. meta'[id] \in {Meta(t), meta[id], NoMeta} /\ \A j \in Ids \ {id} : meta'[j] = meta[j]
    BY <2>2, FileTypes
  <2> QED
    BY <2>1, <2>3
<1>6. /\ Fitting(transfers[id]) /\ Fitting(meta[id]) /\ Fitting(fresh)
      /\ crashes = 0 => Agrees(meta[id], transfers[id])
  BY FileOne
<1>7. /\ Fitting(t) /\ Fitting(Meta(t)) /\ Fitting(NoMeta) /\ ~ NoMeta.complete
      /\ Agrees(Meta(t), t) /\ (crashes = 0 => Agrees(meta[id], t)) /\ Agrees(NoMeta, t)
  BY <1>2, <1>6 DEF Fitting, Meta, NoMeta, Agrees
<1>8. /\ Fitting(transfers'[id]) /\ Fitting(meta'[id]) /\ Fitting(fresh')
      /\ crashes = 0 => Agrees(meta'[id], transfers'[id])
      /\ transfers'[id].complete => transfers'[id].live
      /\ Matches(partial'[id].blocks, transfers'[id].sha)
  BY <1>2, <1>5, <1>6, <1>7 DEF Fitting
<1> QED
  BY <1>5, <1>8, FileElsewhere

\* The seal task, and its command.
LEMMA FileReport ==
  ASSUME TypeOK, PendingInv, SealInv, FileInv, NEW c \in DOMAIN seal,
         SealFile(c) \/ HashCompleted(c) \/ BeginVerified(c)
  PROVE  FileInv'
<1>1. PICK id \in Ids : id = seal[c].id
  BY SealTypes
<1>2. CASE SealFile(c)
  BY <1>2 DEF SealFile, memory, disk, FileInv, AllFit, CompleteIsLive, BootIsRestart, SidecarAgrees,
     SidecarTells, CompleteIsVerified
<1>3. CASE HashCompleted(c) \/ BeginVerified(c)
  <2>1. booting = {} /\ UNCHANGED <<booting, crashes>> /\ seal[c].stage = "hashed"
    BY <1>3 DEF HashCompleted, BeginVerified, Ready
  <2>2. /\ Fitting(transfers[id]) /\ Fitting(meta[id]) /\ Fitting(fresh)
        /\ crashes = 0 => Agrees(meta[id], transfers[id])
    BY FileOne
  <2>3. ASSUME Unsettled(id), seal[c].digest # IoError, Matches(seal[c].digest, transfers[id].sha),
               MarkComplete(id), UNCHANGED <<partial, fresh>>
        PROVE  FileInv'
    <3>1. transfers[id].live
      BY <2>3 DEF PendingInv, PendingHasSeal, Unsettled
    <3>2. Matches(partial[id].blocks, transfers[id].sha)
      BY <1>1, <2>1, <2>3, SealIsOwn
    <3> QED
      BY <2>1, <2>3, <3>1, <3>2, FileMarked
  <2>4. ASSUME UNCHANGED <<transfers, meta, partial, fresh>>
        PROVE  FileInv'
    BY <2>1, <2>2, <2>4, FileOnly
  <2>5. CASE HashCompleted(c)
    <3>1. UNCHANGED <<partial, fresh>>
      BY <2>5 DEF HashCompleted
    <3>2. \/ UNCHANGED <<transfers, meta>>
          \/ /\ completing[id] # NoCall /\ seal[c].digest # IoError
             /\ Matches(seal[c].digest, transfers[id].sha) /\ MarkComplete(id)
      BY <1>1, <2>5 DEF HashCompleted
    <3> QED
      BY <2>3, <2>4, <3>1, <3>2 DEF Unsettled
  <2>6. CASE BeginVerified(c)
    <3>1. \/ UNCHANGED <<transfers, meta, partial, fresh>>
          \/ /\ verifying[id] # NoCall /\ seal[c].digest # IoError
             /\ Matches(seal[c].digest, transfers[id].sha) /\ MarkComplete(id)
             /\ UNCHANGED <<partial, fresh>>
          \/ /\ transfers' = [transfers EXCEPT ![id] = Absent]
             /\ partial' = [partial EXCEPT ![id] = Missing]
             /\ meta' = [meta EXCEPT ![id] = NoMeta]
             /\ fresh'.size = transfers[id].size /\ fresh'.sha = transfers[id].sha
      BY <1>1, <2>6 DEF BeginVerified, disk
    <3>2. CASE /\ transfers' = [transfers EXCEPT ![id] = Absent]
               /\ partial' = [partial EXCEPT ![id] = Missing]
               /\ meta' = [meta EXCEPT ![id] = NoMeta]
               /\ fresh'.size = transfers[id].size /\ fresh'.sha = transfers[id].sha
      <4>1. /\ transfers'[id] = Absent /\ meta'[id] = NoMeta
            /\ \A j \in Ids \ {id} : /\ transfers'[j] = transfers[j] /\ partial'[j] = partial[j]
                                     /\ meta'[j] = meta[j]
        BY <3>2, FileTypes
      <4>2. /\ Fitting(transfers'[id]) /\ Fitting(meta'[id]) /\ Fitting(fresh')
            /\ ~ transfers'[id].complete /\ ~ meta'[id].complete
        BY <2>2, <3>2, <4>1 DEF Fitting, Absent, NoMeta
      <4> QED
        BY <2>1, <4>1, <4>2, FileElsewhere DEF Agrees
    <3> QED
      BY <2>3, <2>4, <3>1, <3>2 DEF Unsettled
  <2> QED
    BY <1>3, <2>5, <2>6
<1> QED
  BY <1>2, <1>3

LEMMA FileStep ==
  ASSUME ArtifactsFit, ChunksHaveBlocks, TypeOK, PendingInv, SealInv, FileInv, [Next]_vars
  PROVE  FileInv'
<1>1. CASE UNCHANGED vars
  BY <1>1 DEF vars, FileInv, AllFit, CompleteIsLive, BootIsRestart, SidecarAgrees, SidecarTells,
     CompleteIsVerified
<1>2. ASSUME NEW id \in Ids, Evict(id)
      PROVE  FileInv'
  <2>1. booting = {}
    BY <1>2 DEF Evict, PendingInv, FreshIsAbsent
  <2> QED
    BY <1>2, <2>1, FileDrop DEF Evict
<1> QED
  BY <1>1, <1>2, FileCommands, FileRecover, FileFresh, FileCrash, FileReport DEF Next

\* A transfer marked complete is the file its caller described, over chunks that
\* failed in part, failed sidecars, and one restart that tears a file
\* (handle_hash_completed, load_recovered_transfer).
THEOREM StoreCompleteIsVerified ==
  ASSUME ~ LateSeals, ChunksHaveBlocks, ArtifactsFit
  PROVE  Spec => []CompleteIsVerified
<1>1. Init => FileInv
  BY FileInit
<1>2. TypeOK /\ PendingInv /\ SealInv /\ FileInv /\ [Next]_vars => FileInv'
  BY FileStep
<1>3. FileInv => CompleteIsVerified
  BY DEF FileInv
<1> QED
  BY <1>1, <1>2, <1>3, SealInvariant, PTL DEF Spec

-----------------------------------------------------------------------------
(* The budget counts what the transfers have received.                       *)

\* The transfers known are finitely many, and total_disk_bytes is their sum.
SumInv == IsFiniteSet(Live) /\ TotalIsReceived

\* The counts a sum is made of.
LEMMA SumParts ==
  ASSUME TypeOK
  PROVE  /\ \A id \in Ids : /\ Received[id] = transfers[id].received /\ Received[id] \in Nat
                            /\ id \in Live <=> transfers[id].live
         /\ \A id \in Ids : /\ Received'[id] = transfers'[id].received
                            /\ id \in Live' <=> transfers'[id].live
         /\ Live \subseteq Ids /\ Live' \subseteq Ids
         /\ TotalIsReceived <=> total = SumFunctionOnSet(Received, Live)
         /\ TotalIsReceived' <=> total' = SumFunctionOnSet(Received', Live')
<1>1. \A id \in Ids : transfers[id] \in Transfer
  BY TypeParts DEF MemoryType
<1> QED
  BY <1>1 DEF Received, Live, TotalIsReceived, Transfer

LEMMA SumInit == Init => SumInv
<1> SUFFICES ASSUME Init
             PROVE  SumInv
  OBVIOUS
<1>1. Live = {}
  BY DEF Init, Live, Absent
<1> QED
  BY <1>1, SumEmpty, FS_EmptySet DEF SumInv, TotalIsReceived, Init

\* The transfers received what they had, and the same are known.
LEMMA SumSteady ==
  ASSUME TypeOK, SumInv, total' = total,
         \A id \in Ids : /\ transfers'[id].received = transfers[id].received
                         /\ transfers'[id].live = transfers[id].live
  PROVE  SumInv'
<1>1. Live' = Live
  BY DEF Live
<1>2. \A id \in Live : Received[id] = Received'[id]
  BY SumParts
<1>3. SumFunctionOnSet(Received, Live) = SumFunctionOnSet(Received', Live)
  BY <1>2, SumSame DEF SumInv
<1> QED
  BY <1>1, <1>3, SumParts DEF SumInv

\* A known transfer goes, and gives back what it received.
LEMMA SumGone ==
  ASSUME TypeOK, SumInv, NEW id \in Ids, transfers[id].live,
         transfers' = [transfers EXCEPT ![id] = Absent], total' = Remaining(transfers[id])
  PROVE  SumInv'
<1>1. /\ ~ transfers'[id].live
      /\ \A j \in Ids \ {id} : transfers'[j] = transfers[j]
  BY TypeParts DEF MemoryType, Absent
<1>2. id \in Live /\ Live' = Live \ {id}
  BY <1>1, SumParts
<1>3. (\A j \in Live : Received[j] \in Nat) /\ (\A j \in Live \ {id} : Received'[j] = Received[j])
  BY <1>1, SumParts
<1>4. /\ IsFiniteSet(Live \ {id})
      /\ Received[id] <= SumFunctionOnSet(Received, Live)
      /\ SumFunctionOnSet(Received', Live \ {id}) = SumFunctionOnSet(Received, Live) - Received[id]
  BY <1>2, <1>3, SumDrop DEF SumInv
<1>5. total = SumFunctionOnSet(Received, Live) /\ Received[id] = transfers[id].received
  BY SumParts DEF SumInv
<1>6. total' = total - Received[id]
  BY <1>4, <1>5 DEF Remaining
<1> QED
  BY <1>2, <1>4, <1>5, <1>6, SumParts DEF SumInv

\* A transfer that was not known comes, with what it has received.
LEMMA SumComes ==
  ASSUME TypeOK, SumInv, NEW id \in Ids, ~ transfers[id].live, NEW t \in Transfer, t.live,
         transfers' = [transfers EXCEPT ![id] = t], total' = total + t.received
  PROVE  SumInv'
<1>1. /\ transfers'[id] = t
      /\ \A j \in Ids \ {id} : transfers'[j] = transfers[j]
  BY TypeParts DEF MemoryType
<1>2. id \notin Live /\ Live' = Live \union {id}
  BY <1>1, SumParts
<1>3. \A j \in Live : Received[j] \in Nat /\ Received'[j] = Received[j]
  BY <1>1, <1>2, SumParts
<1>4. Received'[id] = t.received /\ t.received \in Nat
  BY <1>1, SumParts DEF Transfer
<1>5. /\ IsFiniteSet(Live \union {id})
      /\ SumFunctionOnSet(Received', Live \union {id}) = SumFunctionOnSet(Received, Live) + Received'[id]
  BY <1>2, <1>3, <1>4, SumWith DEF SumInv
<1> QED
  BY <1>2, <1>4, <1>5, SumParts DEF SumInv

\* A known transfer receives n blocks.
LEMMA SumGrows ==
  ASSUME TypeOK, SumInv, NEW id \in Ids, transfers[id].live, NEW n \in Nat,
         transfers' = [transfers EXCEPT ![id].received = transfers[id].received + n],
         total' = total + n
  PROVE  SumInv'
<1>1. transfers \in [Ids -> Transfer] /\ transfers[id] \in Transfer
  BY TypeParts DEF MemoryType
<1>2. /\ transfers'[id] = [transfers[id] EXCEPT !.received = transfers[id].received + n]
      /\ \A j \in Ids \ {id} : transfers'[j] = transfers[j]
  BY <1>1
<1>3. transfers'[id].received = transfers[id].received + n /\ transfers'[id].live = transfers[id].live
  BY <1>1, <1>2 DEF Transfer
<1>4. id \in Live /\ Live' = Live
  BY <1>2, <1>3, SumParts
<1>5. (\A j \in Live : Received[j] \in Nat) /\ (\A j \in Live \ {id} : Received'[j] = Received[j])
  BY <1>2, SumParts
<1>6. Received'[id] = Received[id] + n /\ Received[id] \in Nat
  BY <1>3, SumParts
<1>7. SumFunctionOnSet(Received', Live) = SumFunctionOnSet(Received, Live) - Received[id] + Received'[id]
  BY <1>4, <1>5, <1>6, SumChange DEF SumInv
<1>8. SumFunctionOnSet(Received, Live) \in Nat
  BY <1>5, SumType DEF SumInv
<1> QED
  BY <1>4, <1>6, <1>7, <1>8, SumParts DEF SumInv

LEMMA SumCommands ==
  ASSUME TypeOK, SumInv, NEW id \in Ids, Commands(id)
  PROVE  SumInv'
<1>1. CASE Abandon(id)
  BY <1>1, SumGone DEF Abandon, Drop
<1>2. CASE UNCHANGED <<transfers, total>>
  BY <1>2, SumSteady
<1>3. ASSUME NEW blocks \in Chunks, AcceptChunk(id, blocks) \/ FailChunk(id, blocks)
      PROVE  SumInv'
  <2>1. transfers[id].live /\ Len(blocks) \in Nat
    BY <1>3, StoreAssumption DEF AcceptChunk, FailChunk, Acceptable, Content
  <2>2. \/ UNCHANGED <<transfers, total>>
        \/ /\ transfers' = [transfers EXCEPT ![id].received = transfers[id].received + Len(blocks)]
           /\ total' = total + Len(blocks)
    BY <1>3 DEF AcceptChunk, FailChunk
  <2> QED
    BY <1>2, <2>1, <2>2, SumGrows
<1> QED
  BY <1>1, <1>2, <1>3 DEF Commands, BeginVerify, Take, BeginFresh, memory

\* A report leaves what the transfers received, or drops the transfer whose file
\* failed its check, which is known while a caller waits for it.
LEMMA SumReport ==
  ASSUME TypeOK, PendingInv, SumInv, NEW c \in DOMAIN seal, HashCompleted(c) \/ BeginVerified(c)
  PROVE  SumInv'
<1>1. PICK id \in Ids : id = seal[c].id
  BY SealTypes
<1>2. transfers \in [Ids -> Transfer]
  BY TypeParts DEF MemoryType
<1>3. CASE total' = total /\ (UNCHANGED transfers \/ MarkComplete(id))
  <2>1. \A j \in Ids : /\ transfers'[j].received = transfers[j].received
                       /\ transfers'[j].live = transfers[j].live
    <3>1. CASE UNCHANGED transfers
      BY <3>1
    <3>2. CASE MarkComplete(id)
      <4>1. transfers' = [transfers EXCEPT ![id].complete = TRUE]
        BY <3>2 DEF MarkComplete
      <4> QED
        BY <1>2, <4>1 DEF Transfer
    <3> QED
      BY <1>3, <3>1, <3>2
  <2> QED
    BY <1>3, <2>1, SumSteady
<1>4. CASE /\ verifying[id] # NoCall
           /\ transfers' = [transfers EXCEPT ![id] = Absent] /\ total' = Remaining(transfers[id])
  <2>1. transfers[id].live
    BY <1>4 DEF PendingInv, PendingHasSeal
  <2> QED
    BY <1>4, <2>1, SumGone
<1>5. CASE HashCompleted(c)
  BY <1>1, <1>3, <1>5 DEF HashCompleted
<1>6. CASE BeginVerified(c)
  BY <1>1, <1>3, <1>4, <1>6 DEF BeginVerified, disk
<1> QED
  BY <1>5, <1>6

LEMMA SumStep ==
  ASSUME TypeOK, PendingInv, SumInv, [Next]_vars
  PROVE  SumInv'
<1>1. CASE UNCHANGED <<transfers, total>>
  BY <1>1, SumSteady
<1>2. ASSUME NEW id \in Ids, Evict(id)
      PROVE  SumInv'
  BY <1>2, SumGone DEF Evict, Drop
<1>3. ASSUME NEW id \in Ids, Recover(id)
      PROVE  SumInv'
  <2>1. CASE meta[id].exists /\ partial[id].exists
    <3>1. ~ transfers[id].live
      BY <1>3 DEF Recover, PendingInv, BootIsQuiet
    <3>2. PICK t : t = Recovered(partial[id], meta[id])
      OBVIOUS
    <3>3. transfers \in [Ids -> Transfer]
      BY TypeParts DEF MemoryType
    <3>4. transfers' = [transfers EXCEPT ![id] = t] /\ total' = total + transfers'[id].received
      BY <1>3, <2>1, <3>2 DEF Recover
    <3>5. transfers'[id] = t
      BY <3>3, <3>4
    <3>6. transfers' \in [Ids -> Transfer]
      BY TypeStep, TypeParts DEF MemoryType
    <3>7. t \in Transfer
      BY <3>5, <3>6
    <3>8. t.live
      BY <3>2 DEF Recovered
    <3> QED
      BY <3>1, <3>4, <3>5, <3>7, <3>8, SumComes
  <2>2. CASE ~ (meta[id].exists /\ partial[id].exists)
    BY <1>1, <1>3, <2>2 DEF Recover
  <2> QED
    BY <2>1, <2>2
<1>4. CASE FinishFresh
  <2>1. fresh \in FreshCall /\ fresh.id \in Ids /\ ~ transfers[fresh.id].live
    BY <1>4, TypeParts DEF FinishFresh, PendingInv, FreshIsAbsent, FreshCall
  <2>2. PICK t : t = [size |-> fresh.size, sha |-> fresh.sha, received |-> 0, complete |-> FALSE,
                      live |-> TRUE]
    OBVIOUS
  <2>3. t \in Transfer /\ t.live /\ t.received = 0
    BY <2>1, <2>2 DEF Transfer, FreshCall
  <2>4. transfers' = [transfers EXCEPT ![fresh.id] = t] /\ total' = total
    BY <1>4, <2>2 DEF FinishFresh
  <2>5. total' = total + t.received
    BY <2>3, <2>4, TypeParts DEF MemoryType
  <2> QED
    BY <2>1, <2>3, <2>4, <2>5, SumComes
<1>5. CASE Crash
  <2>1. Live' = {} /\ total' = 0
    BY <1>5 DEF Crash, Live, Absent
  <2> QED
    BY <2>1, SumEmpty, FS_EmptySet, SumParts DEF SumInv
<1>6. CASE FailFresh
  BY <1>1, <1>6 DEF FailFresh, memory
<1>7. ASSUME NEW c \in DOMAIN seal, SealFile(c)
      PROVE  SumInv'
  BY <1>1, <1>7 DEF SealFile, memory
<1>8. CASE UNCHANGED vars
  BY <1>1, <1>8 DEF vars
<1> QED
  BY <1>2, <1>3, <1>4, <1>5, <1>6, <1>7, <1>8, SumCommands, SumReport DEF Next

\* total_disk_bytes is what the transfers known have received, over evictions,
\* abandons, failed writes and restarts: the budget of begin_fresh neither leaks
\* nor is spent twice.
THEOREM StoreTotalIsReceived == Spec => []TotalIsReceived
<1>1. TypeOK /\ PendingInv /\ SumInv /\ [Next]_vars => SumInv'
  BY SumStep
<1>2. Spec => []SumInv
  BY <1>1, SumInit, PendingInvariant, PTL DEF Spec
<1> QED
  BY <1>2, PTL DEF SumInv
=============================================================================
