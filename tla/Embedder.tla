------------------------------- MODULE Embedder -------------------------------
(***************************************************************************)
(* services/embedder.py: the consumer of chunks.ready that keeps Qdrant in *)
(* step with the chunks table, with the consumer of kafka_io.py and the    *)
(* poll loop of runtime.py it runs in.                                     *)
(*                                                                         *)
(* One action per step of Batcher.flush at which another process can act   *)
(* or the process can die: the batch is polled, the points of the          *)
(* tombstones are deleted, the rows already embedded are filtered out, the *)
(* rest is encoded, upserted, marked in the database, and the offset is    *)
(* committed.  An exception hands the batch to the producer, record by     *)
(* record for embed.dlq, flushes it without a look at what is left, and    *)
(* commits; a crash (or the watchdog's os._exit) commits nothing; a commit *)
(* after the consumer was evicted from its group is swallowed.             *)
(*                                                                         *)
(* The parser is the environment: each of its writes changes the row and   *)
(* appends the message in one step.  (DocParser.tla opens that step.)      *)
(* One partition of chunks.ready is modelled: offsets of different         *)
(* partitions are independent and a chunk's messages all carry one key.    *)
(***************************************************************************)
EXTENDS Integers, Sequences

CONSTANTS Chunk,       \* chunk ids; point_id maps them one to one to points
          Hash,        \* contents of a chunk, told apart by content_hash
          Absent,      \* no row, no point; as a message, a tombstone
          MaxBatch,    \* max_poll_records of the consumer (FLUSH_EVERY)
          MaxLog,      \* bound: messages the environment publishes
          MaxCrashes,  \* bound: crashes and watchdog exits
          MaxFaults    \* bound: exceptions and evictions

ASSUME ContentAssumption == Absent \notin Hash
ASSUME BoundAssumption ==
  MaxBatch \in Nat /\ MaxLog \in Nat /\ MaxCrashes \in Nat /\ MaxFaults \in Nat

VARIABLES
  row,         \* chunks.content_hash, or Absent when there is no row
  embeddedAt,  \* chunks.embedded_at IS NOT NULL
  ready,       \* the log of chunks.ready
  committed,   \* committed offset of the group "embedder"
  position,    \* offset after the last record handed to main
  fetched,     \* offset after the last record the client returned: beyond
               \* position lie the records of PollLoop._buffered
  pending,     \* Batcher.pending, as the offsets of its messages
  toDelete,    \* Batcher.to_delete
  qdrant,      \* content of each chunk's point
  outbox,      \* dead letters in the producer's local queue
  embedDlq,    \* dead letters that reached embed.dlq
  dropped,     \* history: dead letters that never did and, since the restart
               \* after that, are not read from chunks.ready again either
  pc,          \* where flush is
  crashes, faults

db      == <<row, embeddedAt>>
offsets == <<committed, position, fetched>>
bounds  == <<crashes, faults>>
local   == <<position, fetched, pending, toDelete, pc>>
letters == <<outbox, embedDlq, dropped>>
vars    == <<row, embeddedAt, ready, committed, position, fetched, pending,
             toDelete, qdrant, outbox, embedDlq, dropped, pc, crashes, faults>>

Content == Hash \cup {Absent}
Message == [chunk : Chunk, hash : Content]
Starts  == {"join", "poll"}
Step    == Starts \cup {"delete", "filter", "encode", "upsert", "mark", "flush", "commit"}

Init ==
  /\ row = [c \in Chunk |-> Absent]
  /\ embeddedAt = [c \in Chunk |-> FALSE]
  /\ ready = <<>>
  /\ committed = 0 /\ position = 0 /\ fetched = 0
  /\ pending = {} /\ toDelete = {}
  /\ qdrant = [c \in Chunk |-> Absent]
  /\ outbox = {} /\ embedDlq = {} /\ dropped = {}
  /\ pc = "join"
  /\ crashes = 0 /\ faults = 0

-------------------------------------------------------------------------------
(* The environment: the transactions of the parser.                        *)

Publish(c, h) == ready' = Append(ready, [chunk |-> c, hash |-> h])

\* The parser's ON CONFLICT clause: embedded_at survives only an equal hash.
MutantStillEmbedded(c, h) == embeddedAt[c]
StillEmbedded(c, h) == embeddedAt[c] /\ row[c] = h

\* A document is parsed again and this chunk gets content h (perhaps the same).
WriteChunk(c, h) ==
  /\ Len(ready) < MaxLog
  /\ embeddedAt' = [embeddedAt EXCEPT ![c] = StillEmbedded(c, h)]
  /\ row' = [row EXCEPT ![c] = h]
  /\ Publish(c, h)
  /\ UNCHANGED <<committed, local, qdrant, letters, bounds>>

\* The chunk's document is deleted, or became too short to have this chunk.
DropChunk(c) ==
  /\ Len(ready) < MaxLog
  /\ row[c] # Absent
  /\ row' = [row EXCEPT ![c] = Absent]
  /\ embeddedAt' = [embeddedAt EXCEPT ![c] = FALSE]
  /\ Publish(c, Absent)
  /\ UNCHANGED <<committed, local, qdrant, letters, bounds>>

-------------------------------------------------------------------------------
(* The embedder.                                                           *)

PendingOf(c)  == {i \in pending : ready[i].chunk = c}
PendingChunks == {ready[i].chunk : i \in pending}

\* The last message of the batch about c: the dict `want` keeps the last hash
\* of a chunk_id, and Qdrant applies the points of one upsert in order.
Latest(c) == CHOOSE i \in PendingOf(c) : \A j \in PendingOf(c) : j =< i

\* _await_assignment polls while it waits for a partition and keeps what comes.
AwaitPoll ==
  /\ pc = "join"
  /\ \E k \in 1..MaxBatch : fetched + k =< Len(ready) /\ fetched' = fetched + k
  /\ UNCHANGED <<db, ready, committed, position, pending, toDelete, qdrant, letters,
                 pc, bounds>>

\* A partition came, or thirty seconds have passed: batches() ignores which.
EndAwait ==
  /\ pc = "join"
  /\ pc' = "poll"
  /\ UNCHANGED <<db, ready, offsets, pending, toDelete, qdrant, letters, bounds>>

\* The first batch is the buffer, whole; a later one is what poll() returns.
BatchSizes == IF fetched > position THEN {fetched - position}
              ELSE {k \in 1..MaxBatch : position + k =< Len(ready)}

\* The records of a batch of k; main adds each to pending or to to_delete.
MutantRecords(k) == IF fetched > position THEN {} ELSE (position + 1)..(position + k)
Records(k) == (position + 1)..(position + k)

Poll ==
  /\ pc = "poll"
  /\ \E k \in BatchSizes :
       /\ pending' = pending \cup {i \in Records(k) : ready[i].hash # Absent}
       /\ toDelete' = toDelete \cup
            {ready[i].chunk : i \in {j \in Records(k) : ready[j].hash = Absent}}
       /\ position' = position + k /\ fetched' = position + k
  /\ pc' = "delete"
  /\ UNCHANGED <<db, ready, committed, qdrant, letters, bounds>>

WithoutPoints == [c \in Chunk |-> IF c \in toDelete THEN Absent ELSE qdrant[c]]

DeletePoints ==
  /\ pc = "delete"
  /\ qdrant' = WithoutPoints
  /\ toDelete' = {}
  /\ pc' = "filter"
  /\ UNCHANGED <<db, ready, offsets, pending, letters, bounds>>

\* A chunk is skipped when its row is embedded and has the hash of the message.
MutantAlreadyDone(c) == row[c] = ready[Latest(c)].hash
AlreadyDone(c) == embeddedAt[c] /\ row[c] = ready[Latest(c)].hash

FilterDone ==
  /\ pc = "filter"
  /\ pending' = {i \in pending : ~AlreadyDone(ready[i].chunk)}
  /\ pc' = IF pending' = {} THEN "commit" ELSE "encode"
  /\ UNCHANGED <<db, ready, offsets, toDelete, qdrant, letters,
                 bounds>>

\* wait_for_vram, then the two encoders under the watchdog: minutes may pass.
Encode ==
  /\ pc = "encode"
  /\ pc' = "upsert"
  /\ UNCHANGED <<db, ready, offsets, pending, toDelete, qdrant,
                 letters, bounds>>

WithPending == [c \in Chunk |-> IF c \in PendingChunks
                                  THEN ready[Latest(c)].hash ELSE qdrant[c]]

Upsert ==
  /\ pc = "upsert"
  /\ qdrant' = WithPending
  /\ pc' = "mark"
  /\ UNCHANGED <<db, ready, offsets, pending, toDelete, letters,
                 bounds>>

\* UPDATE chunks SET embedded_at = now() WHERE chunk_id = ...: any row there is.
MarkedRows == [c \in Chunk |-> \/ embeddedAt[c]
                               \/ c \in PendingChunks /\ row[c] # Absent]

Mark ==
  /\ pc = "mark"
  /\ embeddedAt' = MarkedRows
  /\ pending' = {}
  /\ pc' = "commit"
  /\ UNCHANGED <<row, ready, offsets, toDelete, qdrant, letters,
                 bounds>>

Commit ==
  /\ pc = "commit"
  /\ committed' = fetched
  /\ pc' = "poll"
  /\ UNCHANGED <<db, ready, position, fetched, pending, toDelete, qdrant, letters,
                 bounds>>

\* commit() swallows _ASSIGNMENT_LOST; the group hands the partition back at
\* the committed offset.
CommitLost ==
  /\ pc = "commit" /\ faults < MaxFaults
  /\ position' = committed /\ fetched' = committed
  /\ pc' = "poll"
  /\ faults' = faults + 1
  /\ UNCHANGED <<db, ready, committed, pending, toDelete, qdrant, letters, crashes>>

\* What an exception sends to embed.dlq: every message still in the batch.
MutantDeadLetters == {ready[i] : i \in {j \in pending : j = committed + 1}}
DeadLetters == {ready[i] : i \in pending}

\* An exception inside flush.  A remote call may have taken effect although
\* the client saw it fail (an upsert that timed out).  to_delete is not
\* cleared; the producer is flushed and the offset committed next.
FlushFails ==
  /\ pc \in {"delete", "filter", "encode", "upsert", "mark"}
  /\ faults < MaxFaults
  /\ \/ UNCHANGED <<qdrant, embeddedAt>>
     \/ pc = "delete" /\ qdrant' = WithoutPoints /\ UNCHANGED embeddedAt
     \/ pc = "upsert" /\ qdrant' = WithPending /\ UNCHANGED embeddedAt
     \/ pc = "mark" /\ embeddedAt' = MarkedRows /\ UNCHANGED qdrant
  /\ outbox' = outbox \cup DeadLetters
  /\ pending' = {}
  /\ pc' = "flush"
  /\ faults' = faults + 1
  /\ UNCHANGED <<row, ready, offsets, toDelete, embedDlq, dropped, crashes>>

\* producer.flush() returns when the queue is empty or after thirty seconds, and
\* the number of records left, which it returns, is not looked at.
FlushProducer ==
  /\ pc = "flush"
  /\ pc' = "commit"
  /\ UNCHANGED <<db, ready, offsets, pending, toDelete, qdrant, letters, bounds>>

\* The client's own thread delivers what is queued, whatever main is doing.
DeliverLetter(m) ==
  /\ m \in outbox
  /\ outbox' = outbox \ {m}
  /\ embedDlq' = embedDlq \cup {m}
  /\ UNCHANGED <<db, ready, committed, local, qdrant, dropped, bounds>>

\* The retries are used up or the message has timed out: send() has left no
\* callback that would be told.
DeliveryFails(m) ==
  /\ m \in outbox
  /\ outbox' = outbox \ {m}
  /\ dropped' = dropped \cup {m}
  /\ UNCHANGED <<db, ready, committed, local, qdrant, embedDlq, bounds>>

\* The producer ends with its process.  What is past the committed offset is
\* read again and cannot have been lost.
Ahead(m) == \E i \in (committed + 1)..Len(ready) : ready[i] = m

ProducerEnds ==
  /\ outbox' = {}
  /\ dropped' = {m \in dropped \cup outbox : ~Ahead(m)}
  /\ UNCHANGED embedDlq

\* An empty poll while deletions are left over from a failed flush.
IdleFlush ==
  /\ pc = "poll" /\ fetched = position
  /\ toDelete # {}
  /\ qdrant' = WithoutPoints
  /\ toDelete' = {}
  /\ pc' = "commit"
  /\ UNCHANGED <<db, ready, offsets, pending, letters, bounds>>

\* Where a restarted consumer resumes.
MutantResumeAt == position
ResumeAt == committed

\* The process dies (crash, watchdog, an exception of the idle flush) and is
\* started again: the batch and the deletions in memory are gone.
Crash ==
  /\ crashes < MaxCrashes
  /\ position' = ResumeAt /\ fetched' = ResumeAt
  /\ pending' = {} /\ toDelete' = {}
  /\ pc' = "join"
  /\ ProducerEnds
  /\ crashes' = crashes + 1
  /\ UNCHANGED <<db, ready, committed, qdrant, faults>>

-------------------------------------------------------------------------------
(* The specifications.                                                     *)

LetterLeaves == \E m \in outbox : DeliverLetter(m) \/ DeliveryFails(m)

EmbedderStep == \/ AwaitPoll \/ EndAwait
                \/ Poll \/ DeletePoints \/ FilterDone \/ Encode \/ Upsert \/ Mark
                \/ Commit \/ CommitLost \/ FlushFails \/ FlushProducer \/ LetterLeaves
                \/ IdleFlush \/ Crash

ParserStep(c) == (\E h \in Hash : WriteChunk(c, h)) \/ DropChunk(c)

Next == EmbedderStep \/ \E c \in Chunk : ParserStep(c)

Spec == Init /\ [][Next]_vars

\* Every message about c has been consumed and committed.
Settled(c) == \A i \in (committed + 1)..Len(ready) : ready[i].chunk # c

\* The parser touches a chunk only when the embedder is done with it: the
\* pipeline as the README runs it, one stage drained after the other.
SettledNext == EmbedderStep \/ \E c \in Chunk : Settled(c) /\ ParserStep(c)

SettledSpec == Init /\ [][SettledNext]_vars

\* The loop of main always takes its next step: the watchdog ends an encode
\* that hangs, and the scheduled task starts the process again.  The producer's
\* thread delivers each record or gives it up when message.timeout.ms is over.
Fairness ==
  /\ WF_vars(EndAwait) /\ WF_vars(Poll) /\ WF_vars(DeletePoints) /\ WF_vars(FilterDone)
  /\ WF_vars(Encode) /\ WF_vars(Upsert) /\ WF_vars(Mark) /\ WF_vars(Commit)
  /\ WF_vars(FlushProducer) /\ WF_vars(LetterLeaves) /\ WF_vars(IdleFlush)

FairSpec == Spec /\ Fairness

-------------------------------------------------------------------------------
(* Properties.                                                             *)

TypeOK ==
  /\ row \in [Chunk -> Content]
  /\ embeddedAt \in [Chunk -> BOOLEAN]
  /\ ready \in Seq(Message)
  /\ position \in 0..Len(ready)
  /\ committed \in 0..position /\ fetched \in position..Len(ready)
  /\ pending \in SUBSET ((committed + 1)..position)
  /\ toDelete \in SUBSET Chunk
  /\ qdrant \in [Chunk -> Content]
  /\ outbox \in SUBSET Message /\ embedDlq \in SUBSET Message
  /\ dropped \in SUBSET Message
  /\ pc \in Step
  /\ crashes \in Nat /\ faults \in Nat

\* A row waiting to be embedded, and where the message that will embed it is.
Unembedded(c) == row[c] # Absent /\ ~embeddedAt[c]
Current(c) == [chunk |-> c, hash |-> row[c]]
DeadLettered(c) == Current(c) \in outbox \cup embedDlq \cup dropped
AnnouncedAfter(c, offset) ==
  \E i \in (offset + 1)..Len(ready) : ready[i] = Current(c)

\* "Nothing is lost before the commit" (kafka_io.py, the watchdog's log line),
\* and after it only in one way: a row that is not embedded is announced ahead
\* of the committed offset, or it is a dead letter that is in embed.dlq, or that
\* the producer still has, gave up or took with it; through every crash,
\* exception, eviction and rewrite by the parser.
NoSilentLoss ==
  \A c \in Chunk :
    Unembedded(c) => DeadLettered(c) \/ AnnouncedAfter(c, committed)

\* The accounting that NoSilentLoss rests on: between a poll and its commit,
\* a row that is not embedded is a dead letter, delivered or not, is announced
\* past the position about to be committed, or is in the batch with the content
\* it has now; and nothing is in the batch once the offset may be committed.
InBatch(c) == \E i \in pending : ready[i] = Current(c)
BatchAccounted ==
  /\ pc \in Starts => position = committed
  /\ pc \in Starts \cup {"flush", "commit"} => pending = {}
  /\ pc \notin Starts =>
       \A c \in Chunk :
         Unembedded(c) => DeadLettered(c) \/ AnnouncedAfter(c, position) \/ InBatch(c)

\* embedded_at is set only on a row whose point has the row's content: what
\* search and the repair scripts take embedded_at to mean.
EmbeddedIsCurrent ==
  \A c \in Chunk : embeddedAt[c] => row[c] # Absent /\ qdrant[c] = row[c]

\* What makes EmbeddedIsCurrent inductive while the parser waits for chunks to
\* settle: an unconsumed message says what the row says; no deletion is pending
\* for an embedded row; what is about to be marked has been upserted.
SettledBatch ==
  /\ \A i \in (committed + 1)..Len(ready) : ready[i].hash = row[ready[i].chunk]
  /\ \A c \in toDelete : ~embeddedAt[c]
  /\ pc \in {"filter", "encode", "upsert", "mark"} => toDelete = {}
  /\ pc = "mark" =>
       \A i \in pending : qdrant[ready[i].chunk] = ready[i].hash

\* Nothing is left to do: the queue is consumed and committed.
Drained == pc = "poll" /\ committed = Len(ready) /\ toDelete = {}

\* README, problem table: running the embedder resolves a mismatch of the
\* database and Qdrant.  Once it is drained no point is left without a row,
\* although tombstones are applied before the upserts of their batch and may be
\* applied twice, when the parser waits for chunks to settle and no call has
\* failed.  (The tombstones of a failed batch are kept in memory only: if the
\* process dies before its next flush, their points stay.)
DrainedHasNoOrphan ==
  Drained /\ faults = 0 => \A c \in Chunk : row[c] = Absent => qdrant[c] = Absent

\* Every row is in the end embedded or in embed.dlq, or is a dead letter whose
\* delivery failed or that was cut short by the end of the process; and nothing
\* is left in memory, although the process may die and its calls may fail.
EventuallyIndexed ==
  <>[](/\ toDelete = {} /\ outbox = {}
       /\ \A c \in Chunk : Unembedded(c) => Current(c) \in embedDlq \cup dropped)

\* The abstract index: the promise is embedded_at.
Index == INSTANCE SearchIndex
           WITH point <- qdrant, promised <- {c \in Chunk : embeddedAt[c]}
IndexSpec == Index!Spec
===============================================================================
