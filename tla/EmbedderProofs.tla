---------------------------- MODULE EmbedderProofs ----------------------------
(***************************************************************************)
(* Proofs about Embedder.tla, for every set of chunks and contents and     *)
(* every value of the bounds: type correctness, that no committed offset   *)
(* loses a chunk, and, when the parser lets a chunk settle before it       *)
(* writes it again, that embedded_at tells the truth about Qdrant and no   *)
(* point outlives its row.  The last part is about Autostart.tla: the      *)
(* same through the rounds of the start-up task, and that every row is     *)
(* indexed when the task has removed itself.                               *)
(***************************************************************************)
EXTENDS Autostart, TLAPS, FiniteSetTheorems, WellFoundedInduction

USE DEF db, offsets, bounds, local, letters, Starts, Current

-------------------------------------------------------------------------------
(* Lemmas about the operators.                                             *)

\* A nonempty set of naturals with an upper bound has a greatest element.
LEMMA GreatestElement ==
  ASSUME NEW n \in Nat, NEW S \in SUBSET (0..n), S # {}
  PROVE  \E i \in S : \A j \in S : j =< i
<1> DEFINE T == {k \in Nat : \E i \in S : k = n - i}
<1>1. \A i \in S : n - i \in T
  OBVIOUS
<1>2. T \subseteq Nat /\ T # {}
  BY <1>1
<1>3. PICK x \in T : \A y \in T : ~(<<y, x>> \in OpToRel(<, Nat))
  BY <1>2, NatLessThanWellFounded, WFMin
<1>4. \A y \in T : ~(y < x)
  BY <1>2, <1>3 DEF OpToRel
<1>5. PICK i \in S : x = n - i
  OBVIOUS
<1>6. ASSUME NEW j \in S PROVE j =< i
  <2>1. ~(n - j < n - i)
    BY <1>1, <1>4, <1>5
  <2> QED BY <2>1
<1> QED BY <1>6

\* The offsets of the type invariant, spelled out for the arithmetic below.
LEMMA OffsetFacts ==
  ASSUME TypeOK
  PROVE  /\ Len(ready) \in Nat /\ position \in Nat /\ committed \in Nat
         /\ committed =< position /\ position =< Len(ready)
         /\ fetched \in Nat /\ position =< fetched /\ fetched =< Len(ready)
         /\ \A i \in pending : i \in Nat /\ committed < i /\ i =< position
<1>1. ready \in Seq(Message)
  BY DEF TypeOK
<1>2. Len(ready) \in Nat
  BY <1>1
<1>3. position \in 0..Len(ready) /\ committed \in 0..position
      /\ fetched \in position..Len(ready)
  BY DEF TypeOK
<1>4. \A i \in pending : i \in (committed + 1)..position
  BY DEF TypeOK
<1> QED BY <1>2, <1>3, <1>4

\* Every offset of the log holds a message.
LEMMA LogMessage ==
  ASSUME TypeOK, NEW i \in 1..Len(ready)
  PROVE  /\ ready[i] \in Message
         /\ ready[i].chunk \in Chunk /\ ready[i].hash \in Content
         /\ ready[i] = [chunk |-> ready[i].chunk, hash |-> ready[i].hash]
<1>1. ready \in Seq(Message)
  BY DEF TypeOK
<1>2. ready[i] \in Message
  BY <1>1
<1> QED BY <1>2 DEF Message

\* Latest (the dict `want` of Batcher.flush) picks a message of the batch that
\* is about the chunk.
LEMMA LatestIsPending ==
  ASSUME TypeOK, NEW c \in PendingChunks
  PROVE  Latest(c) \in pending /\ ready[Latest(c)].chunk = c
<1>1. PendingOf(c) # {}
  BY DEF PendingChunks, PendingOf
<1>2. position \in Nat /\ \A i \in pending : i \in 0..position
  BY OffsetFacts
<1>3. PendingOf(c) \in SUBSET (0..position)
  BY <1>2 DEF PendingOf
<1>4. \E i \in PendingOf(c) : \A j \in PendingOf(c) : j =< i
  BY <1>1, <1>2, <1>3, GreatestElement
<1>5. Latest(c) \in PendingOf(c)
  BY <1>4 DEF Latest
<1> QED BY <1>5 DEF PendingOf

\* Publishing appends one message and leaves every offset before it alone.
LEMMA PublishAppends ==
  ASSUME ready \in Seq(Message), NEW c \in Chunk, NEW h \in Content, Publish(c, h)
  PROVE  /\ ready' \in Seq(Message)
         /\ Len(ready') = Len(ready) + 1
         /\ Len(ready) \in Nat
         /\ \A i \in 1..Len(ready) : ready'[i] = ready[i]
         /\ ready'[Len(ready) + 1] = [chunk |-> c, hash |-> h]
<1>1. [chunk |-> c, hash |-> h] \in Message
  BY DEF Message
<1> QED BY <1>1 DEF Publish

-------------------------------------------------------------------------------
(* Type correctness.  It is inductive only with the two facts about pc that *)
(* say when the batch is empty: Commit and CommitLost move the offsets the  *)
(* batch is delimited by.                                                   *)

TypeInv ==
  /\ TypeOK
  /\ pc \in Starts => position = committed
  /\ pc \notin Starts => fetched = position
  /\ pc \in Starts \cup {"flush", "commit"} => pending = {}

LEMMA InitType == Init => TypeInv
BY BoundAssumption DEF Init, TypeInv, TypeOK, Content, Step

\* What the writes of the parser preserve.
LEMMA ParserType ==
  ASSUME TypeInv, NEW c \in Chunk, ParserStep(c)
  PROVE  TypeInv'
<1> USE DEF TypeInv
<1>1. /\ row' \in [Chunk -> Content] /\ embeddedAt' \in [Chunk -> BOOLEAN]
      /\ \E h \in Content : Publish(c, h)
      /\ UNCHANGED <<committed, local, qdrant, letters, crashes, faults>>
  <2>1. ASSUME NEW h \in Hash, WriteChunk(c, h)
        PROVE  /\ row' \in [Chunk -> Content] /\ embeddedAt' \in [Chunk -> BOOLEAN]
               /\ h \in Content /\ Publish(c, h)
               /\ UNCHANGED <<committed, local, qdrant, letters, crashes, faults>>
    BY <2>1 DEF WriteChunk, TypeOK, Content, StillEmbedded
  <2>2. ASSUME DropChunk(c)
        PROVE  /\ row' \in [Chunk -> Content] /\ embeddedAt' \in [Chunk -> BOOLEAN]
               /\ Absent \in Content /\ Publish(c, Absent)
               /\ UNCHANGED <<committed, local, qdrant, letters, crashes, faults>>
    BY <2>2 DEF DropChunk, TypeOK, Content
  <2> QED BY <2>1, <2>2 DEF ParserStep
<1>2. ready' \in Seq(Message) /\ Len(ready) \in Nat /\ Len(ready') = Len(ready) + 1
  BY <1>1, PublishAppends DEF TypeOK
<1>3. position' \in 0..Len(ready')
  BY <1>1, <1>2, OffsetFacts
<1> QED BY <1>1, <1>2, <1>3 DEF TypeOK

\* The points stay contents of chunks, whichever remote call moves them.
LEMMA PointsType ==
  ASSUME TypeOK
  PROVE  WithoutPoints \in [Chunk -> Content] /\ WithPending \in [Chunk -> Content]
<1>1. WithoutPoints \in [Chunk -> Content]
  BY DEF TypeOK, WithoutPoints, Content
<1>2. ASSUME NEW c \in PendingChunks PROVE ready[Latest(c)].hash \in Content
  <2>1. Latest(c) \in 1..Len(ready)
    BY LatestIsPending, OffsetFacts
  <2> QED BY <2>1, LogMessage
<1>3. \A c \in Chunk : qdrant[c] \in Content
  BY DEF TypeOK
<1>4. WithPending \in [Chunk -> Content]
  BY <1>2, <1>3 DEF WithPending
<1> QED BY <1>1, <1>4

\* The next batch lies in the log, whether the buffer or a poll fills it.
LEMMA BatchFacts ==
  ASSUME TypeOK, NEW k \in BatchSizes
  PROVE  k \in Nat /\ position + k =< Len(ready) /\ fetched =< position + k
<1>1. /\ Len(ready) \in Nat /\ position \in Nat /\ fetched \in Nat
      /\ position =< fetched /\ fetched =< Len(ready)
  BY OffsetFacts
<1>2. CASE fetched > position
  <2>1. k = fetched - position
    BY <1>2 DEF BatchSizes
  <2> QED BY <1>1, <1>2, <2>1
<1>3. CASE ~(fetched > position)
  <2>1. k \in 1..MaxBatch /\ position + k =< Len(ready)
    BY <1>3 DEF BatchSizes
  <2> QED BY <1>1, <1>3, <2>1, BoundAssumption
<1> QED BY <1>2, <1>3

\* Records handed over are offsets of the log; tombstones name chunks.
LEMMA PollType == TypeInv /\ Poll => TypeInv'
<1> SUFFICES ASSUME TypeInv, Poll PROVE TypeInv'
  OBVIOUS
<1> USE DEF TypeInv
<1>1. PICK k \in BatchSizes :
        /\ pending' = pending \cup {i \in Records(k) : ready[i].hash # Absent}
        /\ toDelete' = toDelete \cup
             {ready[i].chunk : i \in {j \in Records(k) : ready[j].hash = Absent}}
        /\ position' = position + k /\ fetched' = position + k
  BY DEF Poll
<1>2. /\ Len(ready) \in Nat /\ position \in Nat /\ committed \in Nat
      /\ position = committed /\ pending = {}
      /\ k \in Nat /\ position + k =< Len(ready)
  BY OffsetFacts, BatchFacts DEF Poll
<1>3. /\ position' \in 0..Len(ready) /\ committed \in 0..position'
      /\ fetched' \in position'..Len(ready)
  BY <1>1, <1>2
<1>4. pending' \in SUBSET ((committed + 1)..position')
  BY <1>1, <1>2 DEF Records
<1>5. \A i \in Records(k) : i \in 1..Len(ready)
  BY <1>1, <1>2 DEF Records
<1>6. \A i \in Records(k) : ready[i].chunk \in Chunk
  BY <1>5, LogMessage
<1>7. toDelete' \in SUBSET Chunk
  BY <1>1, <1>6 DEF TypeOK
<1> QED BY <1>1, <1>3, <1>4, <1>7 DEF Poll, TypeOK, Step

\* What an exception sends to embed.dlq are messages of the log.
LEMMA DeadLettersType == TypeOK => DeadLetters \in SUBSET Message
<1> SUFFICES ASSUME TypeOK, NEW i \in pending PROVE ready[i] \in Message
  BY DEF DeadLetters
<1>1. i \in 1..Len(ready)
  BY OffsetFacts
<1> QED BY <1>1, LogMessage

LEMMA FlushFailsType == TypeInv /\ FlushFails => TypeInv'
<1> SUFFICES ASSUME TypeInv, FlushFails PROVE TypeInv'
  OBVIOUS
<1>1. TypeOK
  BY DEF TypeInv
<1>2. qdrant' \in [Chunk -> Content]
  BY <1>1, PointsType DEF FlushFails, TypeOK
<1>3. embeddedAt' \in [Chunk -> BOOLEAN]
  BY <1>1 DEF FlushFails, TypeOK, MarkedRows
<1>4. outbox' \in SUBSET Message
  BY <1>1, DeadLettersType DEF FlushFails, TypeOK
<1> QED BY <1>2, <1>3, <1>4 DEF TypeInv, TypeOK, FlushFails, Step

\* A dead letter on its way moves nothing else.
LEMMA LetterOnly ==
  LetterLeaves => UNCHANGED <<row, embeddedAt, ready, committed, position, fetched,
                              pending, toDelete, qdrant, pc, crashes, faults>>
BY DEF LetterLeaves, DeliverLetter, DeliveryFails

LEMMA LetterType == TypeInv /\ LetterLeaves => TypeInv'
BY DEF LetterLeaves, DeliverLetter, DeliveryFails, TypeInv, TypeOK

LEMMA EmbedderType == TypeInv /\ EmbedderStep => TypeInv'
<1> SUFFICES ASSUME TypeInv, EmbedderStep PROVE TypeInv'
  OBVIOUS
<1>0. TypeOK
  BY DEF TypeInv
<1>1. CASE Poll
  BY <1>1, PollType
<1>2. CASE DeletePoints
  BY <1>0, <1>2, PointsType DEF DeletePoints, TypeInv, TypeOK, Step
<1>3. CASE FilterDone
  BY <1>3 DEF FilterDone, TypeInv, TypeOK, Step
<1>4. CASE Encode
  BY <1>4 DEF Encode, TypeInv, TypeOK, Step
<1>5. CASE Upsert
  BY <1>0, <1>5, PointsType DEF Upsert, TypeInv, TypeOK, Step
<1>6. CASE Mark
  <2>1. embeddedAt' \in [Chunk -> BOOLEAN]
    BY <1>6 DEF Mark, MarkedRows, TypeInv, TypeOK
  <2> QED BY <1>6, <2>1 DEF Mark, TypeInv, TypeOK, Step
<1>7. CASE Commit
  <2>1. position \in Nat /\ pending = {}
    BY <1>0, <1>7, OffsetFacts DEF Commit, TypeInv
  <2> QED BY <1>7, <2>1 DEF Commit, TypeInv, TypeOK, Step
<1>8. CASE CommitLost
  <2>1. /\ committed \in Nat /\ position \in Nat /\ Len(ready) \in Nat
        /\ committed =< position /\ position =< Len(ready) /\ pending = {}
    BY <1>0, <1>8, OffsetFacts DEF CommitLost, TypeInv
  <2> QED BY <1>8, <2>1 DEF CommitLost, TypeInv, TypeOK, Step
<1>9. CASE FlushFails
  BY <1>9, FlushFailsType
<1>10. CASE IdleFlush
  BY <1>0, <1>10, PointsType DEF IdleFlush, TypeInv, TypeOK, Step
<1>11. CASE Crash
  <2>1. /\ committed \in Nat /\ position \in Nat /\ Len(ready) \in Nat
        /\ committed =< position /\ position =< Len(ready)
    BY <1>0, OffsetFacts
  <2>2. outbox' \in SUBSET Message /\ embedDlq' \in SUBSET Message
        /\ dropped' \in SUBSET Message
    BY <1>0, <1>11 DEF Crash, ProducerEnds, TypeOK
  <2> QED BY <1>11, <2>1, <2>2 DEF Crash, ResumeAt, TypeInv, TypeOK, Step
<1>12. CASE AwaitPoll
  <2>1. fetched' \in position..Len(ready)
    BY <1>0, <1>12, OffsetFacts, BoundAssumption DEF AwaitPoll
  <2> QED BY <1>12, <2>1 DEF AwaitPoll, TypeInv, TypeOK
<1>13. CASE EndAwait
  BY <1>13 DEF EndAwait, TypeInv, TypeOK, Step
<1>14. CASE FlushProducer
  BY <1>14 DEF FlushProducer, TypeInv, TypeOK, Step
<1>15. CASE LetterLeaves
  BY <1>15, LetterType
<1> QED
  BY <1>1, <1>2, <1>3, <1>4, <1>5, <1>6, <1>7, <1>8, <1>9, <1>10, <1>11, <1>12,
     <1>13, <1>14, <1>15
  DEF EmbedderStep

LEMMA StutterType == TypeInv /\ UNCHANGED vars => TypeInv'
BY DEF vars, TypeInv, TypeOK

LEMMA TypeInvariant == Spec => []TypeInv
<1>1. TypeInv /\ [Next]_vars => TypeInv'
  BY ParserType, EmbedderType, StutterType DEF Next
<1> QED BY InitType, <1>1, PTL DEF Spec

\* The variables keep their types: offsets in order, the batch between them.
THEOREM TypeCorrect == Spec => []TypeOK
BY TypeInvariant, PTL DEF TypeInv

-------------------------------------------------------------------------------
(* Nothing is lost.  NoSilentLoss speaks of the committed offset, but the  *)
(* commit moves that offset to the position: the strengthening follows an  *)
(* unembedded row through the batch up to that moment.                     *)

NoLossInv == TypeInv /\ BatchAccounted /\ NoSilentLoss

Accounted(c) == DeadLettered(c) \/ AnnouncedAfter(c, position) \/ InBatch(c)

LEMMA InitNoLoss == Init => NoLossInv
BY InitType DEF Init, NoLossInv, BatchAccounted, NoSilentLoss, Unembedded

\* After a write of the parser, a row that is not embedded is either the one
\* just announced at the end of the log, or one the write did not touch.
LEMMA ParserAnnounces ==
  ASSUME TypeInv, NEW c \in Chunk, ParserStep(c), NEW d \in Chunk, Unembedded(d)'
  PROVE  \/ Unembedded(d) /\ row'[d] = row[d]
         \/ /\ Len(ready') = Len(ready) + 1
            /\ ready'[Len(ready) + 1] = [chunk |-> d, hash |-> row'[d]]
<1> USE DEF TypeInv
<1>1. ASSUME NEW h \in Hash, WriteChunk(c, h), d = c
      PROVE  /\ Len(ready') = Len(ready) + 1
             /\ ready'[Len(ready) + 1] = [chunk |-> d, hash |-> row'[d]]
  <2>1. h \in Content /\ Publish(c, h) /\ row'[d] = h
    BY <1>1 DEF WriteChunk, TypeOK, Content
  <2> QED BY <1>1, <2>1, PublishAppends DEF TypeOK
<1>2. ASSUME NEW h \in Hash, WriteChunk(c, h), d # c
      PROVE  Unembedded(d) /\ row'[d] = row[d]
  BY <1>2 DEF WriteChunk, TypeOK, Unembedded
<1>3. ASSUME DropChunk(c) PROVE Unembedded(d) /\ row'[d] = row[d]
  BY <1>3 DEF DropChunk, TypeOK, Unembedded
<1> QED BY <1>1, <1>2, <1>3 DEF ParserStep

LEMMA ParserNoLoss ==
  ASSUME NoLossInv, NEW c \in Chunk, ParserStep(c)
  PROVE  NoLossInv'
<1> USE DEF NoLossInv
<1>1. /\ \E h \in Content : Publish(c, h)
      /\ UNCHANGED <<committed, position, pending, letters, pc>>
  BY DEF ParserStep, WriteChunk, DropChunk, Content
<1>2. /\ Len(ready') = Len(ready) + 1 /\ Len(ready) \in Nat
      /\ \A i \in 1..Len(ready) : ready'[i] = ready[i]
  BY <1>1, PublishAppends DEF TypeInv, TypeOK
<1>3. /\ committed \in Nat /\ position \in Nat
      /\ committed =< position /\ position =< Len(ready)
      /\ \A i \in pending : i \in 1..Len(ready)
  BY OffsetFacts DEF TypeInv
<1>4. ASSUME NEW d \in Chunk, Unembedded(d)', NEW o \in {committed, position},
             Unembedded(d) => AnnouncedAfter(d, o) \/ DeadLettered(d) \/ InBatch(d)
      PROVE  AnnouncedAfter(d, o)' \/ DeadLettered(d)' \/ InBatch(d)'
  <2>1. o \in Nat /\ o =< Len(ready)
    BY <1>3
  <2>2. CASE ready'[Len(ready) + 1] = [chunk |-> d, hash |-> row'[d]]
    <3>1. Len(ready) + 1 \in (o + 1)..Len(ready')
      BY <1>2, <2>1
    <3>2. \E i \in (o + 1)..Len(ready') : ready'[i] = [chunk |-> d, hash |-> row'[d]]
      BY <2>2, <3>1
    <3>3. o' = o
      BY <1>1
    <3> QED BY <3>2, <3>3 DEF AnnouncedAfter
  <2>3. CASE Unembedded(d) /\ row'[d] = row[d]
    <3>1. CASE AnnouncedAfter(d, o)
      <4>1. PICK i \in (o + 1)..Len(ready) : ready[i] = [chunk |-> d, hash |-> row[d]]
        BY <3>1 DEF AnnouncedAfter
      <4>2. i \in (o + 1)..Len(ready') /\ ready'[i] = ready[i]
        BY <1>2, <2>1
      <4>3. o' = o
        BY <1>1
      <4> QED BY <2>3, <4>1, <4>2, <4>3 DEF AnnouncedAfter
    <3>2. CASE DeadLettered(d)
      BY <1>1, <2>3, <3>2 DEF DeadLettered
    <3>3. CASE InBatch(d)
      BY <1>1, <1>2, <1>3, <2>3, <3>3 DEF InBatch
    <3> QED BY <1>4, <2>3, <3>1, <3>2, <3>3
  <2> QED BY <1>4, <2>2, <2>3, ParserAnnounces
<1>5. BatchAccounted'
  BY <1>1, <1>4 DEF BatchAccounted
<1>6. NoSilentLoss'
  <2> SUFFICES ASSUME NEW d \in Chunk, Unembedded(d)'
               PROVE  DeadLettered(d)' \/ AnnouncedAfter(d, committed)'
    BY DEF NoSilentLoss
  <2>1. CASE Unembedded(d) /\ row'[d] = row[d]
    <3>1. CASE AnnouncedAfter(d, committed)
      <4>1. PICK i \in (committed + 1)..Len(ready) :
              ready[i] = [chunk |-> d, hash |-> row[d]]
        BY <3>1 DEF AnnouncedAfter
      <4>2. i \in (committed + 1)..Len(ready') /\ ready'[i] = ready[i]
        BY <1>2, <1>3
      <4> QED BY <1>1, <2>1, <4>1, <4>2 DEF AnnouncedAfter
    <3>2. CASE DeadLettered(d)
      BY <1>1, <2>1, <3>2 DEF DeadLettered
    <3> QED BY <2>1, <3>1, <3>2 DEF NoSilentLoss
  <2>2. CASE ready'[Len(ready) + 1] = [chunk |-> d, hash |-> row'[d]]
    <3>1. Len(ready) + 1 \in (committed' + 1)..Len(ready')
      BY <1>1, <1>2, <1>3
    <3> QED BY <2>2, <3>1 DEF AnnouncedAfter
  <2> QED BY <2>1, <2>2, ParserAnnounces
<1> QED BY <1>5, <1>6, ParserType

\* A poll moves the announcements it passes into the batch.
LEMMA PollAccounts == NoLossInv /\ Poll => BatchAccounted'
<1> SUFFICES ASSUME NoLossInv, Poll PROVE BatchAccounted'
  OBVIOUS
<1>1. PICK k \in BatchSizes :
        /\ pending' = pending \cup {i \in Records(k) : ready[i].hash # Absent}
        /\ position' = position + k
  BY DEF Poll
<1>2. /\ Len(ready) \in Nat /\ position \in Nat /\ position = committed /\ k \in Nat
      /\ position + k =< Len(ready)
  BY OffsetFacts, BatchFacts DEF Poll, NoLossInv, TypeInv
<1>3. UNCHANGED <<row, embeddedAt, ready, letters>> /\ pc' = "delete"
  BY DEF Poll
<1>4. ASSUME NEW c \in Chunk, Unembedded(c), ~DeadLettered(c)
      PROVE  AnnouncedAfter(c, position)' \/ InBatch(c)'
  <2>1. PICK i \in (committed + 1)..Len(ready) :
          ready[i] = [chunk |-> c, hash |-> row[c]]
    BY <1>4 DEF NoLossInv, NoSilentLoss, AnnouncedAfter
  <2>2. ready[i].hash # Absent
    BY <1>4, <2>1 DEF Unembedded
  <2>3. i \in pending' \/ i \in (position' + 1)..Len(ready)
    BY <1>1, <1>2, <2>2 DEF Records
  <2> QED BY <1>3, <2>1, <2>3 DEF AnnouncedAfter, InBatch
<1>5. \A c \in Chunk : /\ Unembedded(c)' <=> Unembedded(c)
                       /\ DeadLettered(c)' <=> DeadLettered(c)
  BY <1>3 DEF Unembedded, DeadLettered
<1> QED BY <1>3, <1>4, <1>5 DEF BatchAccounted

\* The filter drops a chunk only if its row is embedded.
LEMMA FilterAccounts == NoLossInv /\ FilterDone => BatchAccounted'
<1> SUFFICES ASSUME NoLossInv, FilterDone PROVE BatchAccounted'
  OBVIOUS
<1>1. /\ UNCHANGED <<row, embeddedAt, ready, position, letters>>
      /\ pending' = {i \in pending : ~AlreadyDone(ready[i].chunk)}
      /\ pc' \in {"commit", "encode"}
      /\ pc' = "commit" => pending' = {}
  BY DEF FilterDone
<1>2. ASSUME NEW c \in Chunk, Unembedded(c), InBatch(c) PROVE InBatch(c)'
  <2>1. PICK i \in pending : ready[i] = [chunk |-> c, hash |-> row[c]]
    BY <1>2 DEF InBatch
  <2>2. i \in pending'
    BY <1>1, <1>2, <2>1 DEF AlreadyDone, Unembedded
  <2> QED BY <1>1, <2>1, <2>2 DEF InBatch
<1>3. \A c \in Chunk : /\ Unembedded(c)' <=> Unembedded(c)
                       /\ DeadLettered(c)' <=> DeadLettered(c)
                       /\ AnnouncedAfter(c, position)' <=> AnnouncedAfter(c, position)
  BY <1>1 DEF Unembedded, DeadLettered, AnnouncedAfter
<1>4. \A c \in Chunk : Unembedded(c) => Accounted(c)
  BY DEF NoLossInv, BatchAccounted, Accounted, FilterDone
<1> QED BY <1>1, <1>2, <1>3, <1>4 DEF BatchAccounted, Accounted

\* The update marks every row the batch has a message for.
LEMMA MarkAccounts == NoLossInv /\ Mark => BatchAccounted' /\ NoSilentLoss'
<1> SUFFICES ASSUME NoLossInv, Mark PROVE BatchAccounted' /\ NoSilentLoss'
  OBVIOUS
<1>1. /\ UNCHANGED <<row, ready, committed, position, letters>>
      /\ embeddedAt' = MarkedRows /\ pending' = {} /\ pc' = "commit"
  BY DEF Mark
<1>2. ASSUME NEW c \in Chunk, Unembedded(c)'
      PROVE  Unembedded(c) /\ ~InBatch(c)
  BY <1>1, <1>2 DEF Unembedded, MarkedRows, InBatch, PendingChunks
<1>3. \A c \in Chunk : Unembedded(c) => Accounted(c)
  BY DEF NoLossInv, BatchAccounted, Accounted, Mark
<1>4. \A c \in Chunk : /\ DeadLettered(c)' <=> DeadLettered(c)
                       /\ AnnouncedAfter(c, position)' <=> AnnouncedAfter(c, position)
                       /\ AnnouncedAfter(c, committed)' <=> AnnouncedAfter(c, committed)
  BY <1>1 DEF DeadLettered, AnnouncedAfter
<1>5. BatchAccounted'
  BY <1>1, <1>2, <1>3, <1>4 DEF BatchAccounted, Accounted
<1>6. NoSilentLoss'
  BY <1>2, <1>4 DEF NoLossInv, NoSilentLoss
<1> QED BY <1>5, <1>6

\* An exception makes dead letters of what is still in the batch.
LEMMA FlushFailsAccounts == NoLossInv /\ FlushFails => BatchAccounted' /\ NoSilentLoss'
<1> SUFFICES ASSUME NoLossInv, FlushFails PROVE BatchAccounted' /\ NoSilentLoss'
  OBVIOUS
<1>1. /\ UNCHANGED <<row, ready, committed, position>>
      /\ outbox' = outbox \cup DeadLetters /\ UNCHANGED <<embedDlq, dropped>>
      /\ embeddedAt' \in {embeddedAt, MarkedRows} /\ pending' = {} /\ pc' = "flush"
  BY DEF FlushFails
<1>2. \A c \in Chunk : Unembedded(c)' => Unembedded(c)
  BY <1>1 DEF Unembedded, MarkedRows
<1>3. \A c \in Chunk : InBatch(c) \/ DeadLettered(c) => DeadLettered(c)'
  BY <1>1 DEF InBatch, DeadLettered, DeadLetters
<1>4. \A c \in Chunk : Unembedded(c) => Accounted(c)
  BY DEF NoLossInv, BatchAccounted, Accounted, FlushFails
<1>5. \A c \in Chunk : /\ AnnouncedAfter(c, position)' <=> AnnouncedAfter(c, position)
                       /\ AnnouncedAfter(c, committed)' <=> AnnouncedAfter(c, committed)
  BY <1>1 DEF AnnouncedAfter
<1>6. BatchAccounted'
  BY <1>1, <1>2, <1>3, <1>4, <1>5 DEF BatchAccounted, Accounted
<1>7. NoSilentLoss'
  BY <1>2, <1>3, <1>5 DEF NoLossInv, NoSilentLoss
<1> QED BY <1>6, <1>7

\* The steps that move neither rows, batch nor offsets leave the accounts be.
LEMMA QuietAccounts ==
  ASSUME NoLossInv, pc \notin Starts, pc' \notin Starts \cup {"flush", "commit"},
         UNCHANGED <<row, embeddedAt, ready, committed, position, pending, letters>>
  PROVE  BatchAccounted' /\ NoSilentLoss'
BY DEF NoLossInv, BatchAccounted, NoSilentLoss, Unembedded, DeadLettered,
       AnnouncedAfter, InBatch

\* A dead letter that leaves the producer stays in the accounts.
LEMMA LetterAccounts == NoLossInv /\ LetterLeaves => BatchAccounted' /\ NoSilentLoss'
<1> SUFFICES ASSUME NoLossInv, LetterLeaves PROVE BatchAccounted' /\ NoSilentLoss'
  OBVIOUS
<1>1. /\ UNCHANGED <<row, embeddedAt, ready, committed, position, pending, pc>>
      /\ (outbox \cup embedDlq \cup dropped)' = outbox \cup embedDlq \cup dropped
  BY DEF LetterLeaves, DeliverLetter, DeliveryFails
<1>2. \A c \in Chunk : DeadLettered(c)' <=> DeadLettered(c)
  BY <1>1 DEF DeadLettered
<1>3. \A c \in Chunk : /\ Unembedded(c)' <=> Unembedded(c)
                       /\ AnnouncedAfter(c, committed)' <=> AnnouncedAfter(c, committed)
                       /\ AnnouncedAfter(c, position)' <=> AnnouncedAfter(c, position)
                       /\ InBatch(c)' <=> InBatch(c)
  BY <1>1 DEF Unembedded, AnnouncedAfter, InBatch
<1> QED BY <1>1, <1>2, <1>3 DEF NoLossInv, BatchAccounted, NoSilentLoss

\* A process that dies takes undelivered dead letters with it, but of these only
\* the committed ones are lost: the others are announced ahead of the offset.
LEMMA CrashAccounts == NoLossInv /\ Crash => BatchAccounted' /\ NoSilentLoss'
<1> SUFFICES ASSUME NoLossInv, Crash PROVE BatchAccounted' /\ NoSilentLoss'
  OBVIOUS
<1>1. /\ UNCHANGED <<row, embeddedAt, ready, committed, embedDlq>>
      /\ pc' = "join" /\ position' = committed /\ pending' = {}
      /\ dropped' = {m \in dropped \cup outbox : ~Ahead(m)}
  BY DEF Crash, ResumeAt, ProducerEnds
<1>2. ASSUME NEW c \in Chunk, Unembedded(c)
      PROVE  DeadLettered(c)' \/ AnnouncedAfter(c, committed)
  <2>1. CASE AnnouncedAfter(c, committed)
    BY <2>1
  <2>2. CASE ~AnnouncedAfter(c, committed)
    <3>1. Current(c) \in outbox \cup embedDlq \cup dropped
      BY <1>2, <2>2 DEF NoLossInv, NoSilentLoss, DeadLettered
    <3>2. ~Ahead(Current(c))
      BY <2>2 DEF Ahead, AnnouncedAfter
    <3>3. Current(c)' = Current(c)
      BY <1>1
    <3> HIDE DEF Current
    <3>4. Current(c) \in (outbox \cup embedDlq \cup dropped)'
      BY <1>1, <3>1, <3>2
    <3> QED BY <3>3, <3>4 DEF DeadLettered
  <2> QED BY <2>1, <2>2
<1>3. \A c \in Chunk : /\ Unembedded(c)' <=> Unembedded(c)
                       /\ AnnouncedAfter(c, committed)' <=> AnnouncedAfter(c, committed)
  BY <1>1 DEF Unembedded, AnnouncedAfter
<1> QED BY <1>1, <1>2, <1>3 DEF BatchAccounted, NoSilentLoss

LEMMA EmbedderNoLoss == NoLossInv /\ EmbedderStep => NoLossInv'
<1> SUFFICES ASSUME NoLossInv, EmbedderStep PROVE BatchAccounted' /\ NoSilentLoss'
  BY EmbedderType DEF NoLossInv
<1>1. CASE Poll
  <2>1. NoSilentLoss'
    BY <1>1 DEF Poll, NoLossInv, NoSilentLoss, Unembedded, DeadLettered, AnnouncedAfter
  <2> QED BY <1>1, <2>1, PollAccounts
<1>2. CASE DeletePoints
  BY <1>2, QuietAccounts DEF DeletePoints
<1>3. CASE FilterDone
  <2>1. NoSilentLoss'
    BY <1>3 DEF FilterDone, NoLossInv, NoSilentLoss, Unembedded, DeadLettered,
                AnnouncedAfter
  <2> QED BY <1>3, <2>1, FilterAccounts
<1>4. CASE Encode
  BY <1>4, QuietAccounts DEF Encode
<1>5. CASE Upsert
  BY <1>5, QuietAccounts DEF Upsert
<1>6. CASE Mark
  BY <1>6, MarkAccounts
<1>7. CASE Commit
  <2>1. \A c \in Chunk : ~InBatch(c)
    BY <1>7 DEF Commit, NoLossInv, BatchAccounted, InBatch
  <2>2. \A c \in Chunk : Unembedded(c) => DeadLettered(c) \/ AnnouncedAfter(c, position)
    BY <1>7, <2>1 DEF Commit, NoLossInv, BatchAccounted
  <2>3. committed' = position
    BY <1>7 DEF Commit, NoLossInv, TypeInv
  <2>4. NoSilentLoss'
    BY <1>7, <2>2, <2>3 DEF Commit, NoSilentLoss, Unembedded, DeadLettered,
                            AnnouncedAfter
  <2> QED BY <1>7, <2>3, <2>4 DEF Commit, NoLossInv, BatchAccounted
<1>8. CASE CommitLost
  BY <1>8 DEF CommitLost, NoLossInv, BatchAccounted, NoSilentLoss, Unembedded,
              DeadLettered, AnnouncedAfter
<1>9. CASE FlushFails
  BY <1>9, FlushFailsAccounts
<1>10. CASE IdleFlush
  BY <1>10 DEF IdleFlush, NoLossInv, BatchAccounted, NoSilentLoss, Unembedded,
               DeadLettered, AnnouncedAfter
<1>11. CASE Crash
  BY <1>11, CrashAccounts
<1>12. CASE AwaitPoll
  BY <1>12 DEF AwaitPoll, NoLossInv, BatchAccounted, NoSilentLoss, Unembedded,
               DeadLettered, AnnouncedAfter
<1>13. CASE EndAwait
  BY <1>13 DEF EndAwait, NoLossInv, BatchAccounted, NoSilentLoss, Unembedded,
               DeadLettered, AnnouncedAfter
<1>14. CASE FlushProducer
  BY <1>14 DEF FlushProducer, NoLossInv, BatchAccounted, NoSilentLoss, Unembedded,
               DeadLettered, AnnouncedAfter, InBatch
<1>15. CASE LetterLeaves
  BY <1>15, LetterAccounts
<1> QED
  BY <1>1, <1>2, <1>3, <1>4, <1>5, <1>6, <1>7, <1>8, <1>9, <1>10, <1>11, <1>12,
     <1>13, <1>14, <1>15
  DEF EmbedderStep

LEMMA StutterNoLoss == NoLossInv /\ UNCHANGED vars => NoLossInv'
<1> SUFFICES ASSUME NoLossInv, UNCHANGED vars PROVE BatchAccounted' /\ NoSilentLoss'
  BY StutterType DEF NoLossInv
<1> QED
  BY DEF vars, NoLossInv, BatchAccounted, NoSilentLoss, Unembedded, DeadLettered,
         AnnouncedAfter, InBatch

LEMMA NoLossInvariant == Spec => []NoLossInv
<1>1. NoLossInv /\ [Next]_vars => NoLossInv'
  BY ParserNoLoss, EmbedderNoLoss, StutterNoLoss DEF Next
<1> QED BY InitNoLoss, <1>1, PTL DEF Spec

\* No crash, exception, eviction or concurrent rewrite makes the committed
\* offset pass a chunk that is neither embedded nor a dead letter: in embed.dlq,
\* still in the producer, or lost by the producer.
THEOREM NothingLost == Spec => []NoSilentLoss
BY NoLossInvariant, PTL DEF NoLossInv

\* The accounting of the batch that this rests on.
THEOREM BatchIsAccounted == Spec => []BatchAccounted
BY NoLossInvariant, PTL DEF NoLossInv

-------------------------------------------------------------------------------
(* embedded_at tells the truth when the parser lets a chunk settle.        *)

SettledInv == TypeInv /\ EmbeddedIsCurrent /\ SettledBatch

LEMMA PendingChunksType == TypeOK => PendingChunks \subseteq Chunk
<1> SUFFICES ASSUME TypeOK, NEW i \in pending PROVE ready[i].chunk \in Chunk
  BY DEF PendingChunks
<1>1. i \in 1..Len(ready)
  BY OffsetFacts
<1> QED BY <1>1, LogMessage

\* A message of the batch says what its chunk's row says now.
LEMMA PendingSaysRow ==
  ASSUME SettledInv, NEW i \in pending
  PROVE  ready[i].hash = row[ready[i].chunk]
<1>1. i \in (committed + 1)..Len(ready)
  BY OffsetFacts DEF SettledInv, TypeInv
<1> QED BY <1>1 DEF SettledInv, SettledBatch

\* So an upsert writes the contents of the rows and nothing else.
LEMMA UpsertWritesRows ==
  ASSUME SettledInv, NEW c \in Chunk
  PROVE  WithPending[c] = IF c \in PendingChunks THEN row[c] ELSE qdrant[c]
<1>1. CASE c \in PendingChunks
  <2>1. Latest(c) \in pending /\ ready[Latest(c)].chunk = c
    BY <1>1, LatestIsPending DEF SettledInv, TypeInv
  <2>2. ready[Latest(c)].hash = row[c]
    BY <2>1, PendingSaysRow
  <2> QED BY <1>1, <2>2 DEF WithPending
<1>2. CASE c \notin PendingChunks
  BY <1>2 DEF WithPending
<1> QED BY <1>1, <1>2

\* And what Mark is about to mark holds the contents of the rows.
LEMMA MarkedIsCurrent ==
  ASSUME SettledInv, pc = "mark", NEW c \in PendingChunks
  PROVE  qdrant[c] = row[c]
<1>1. PICK i \in pending : ready[i].chunk = c
  BY DEF PendingChunks
<1>2. qdrant[c] = ready[i].hash
  BY <1>1 DEF SettledInv, SettledBatch
<1> QED BY <1>1, <1>2, PendingSaysRow

LEMMA InitSettled == Init => SettledInv
BY InitType DEF Init, SettledInv, EmbeddedIsCurrent, SettledBatch

LEMMA ParserSettled ==
  ASSUME SettledInv, NEW c \in Chunk, Settled(c), ParserStep(c)
  PROVE  SettledInv'
<1> USE DEF SettledInv
<1>1. PICK h \in Content :
        /\ Publish(c, h)
        /\ row' = [row EXCEPT ![c] = h]
        /\ embeddedAt'[c] => StillEmbedded(c, h) /\ h # Absent
        /\ \A d \in Chunk \ {c} : embeddedAt'[d] = embeddedAt[d]
        /\ UNCHANGED <<committed, position, pending, toDelete, qdrant, pc>>
  <2>1. ASSUME NEW h \in Hash, WriteChunk(c, h)
        PROVE  /\ h \in Content /\ Publish(c, h)
               /\ row' = [row EXCEPT ![c] = h]
               /\ embeddedAt'[c] => StillEmbedded(c, h) /\ h # Absent
               /\ \A d \in Chunk \ {c} : embeddedAt'[d] = embeddedAt[d]
               /\ UNCHANGED <<committed, position, pending, toDelete, qdrant, pc>>
    BY <2>1, ContentAssumption
    DEF WriteChunk, Content, TypeInv, TypeOK, StillEmbedded
  <2>2. ASSUME DropChunk(c)
        PROVE  /\ Absent \in Content /\ Publish(c, Absent)
               /\ row' = [row EXCEPT ![c] = Absent]
               /\ ~embeddedAt'[c]
               /\ \A d \in Chunk \ {c} : embeddedAt'[d] = embeddedAt[d]
               /\ UNCHANGED <<committed, position, pending, toDelete, qdrant, pc>>
    BY <2>2 DEF DropChunk, Content, TypeInv, TypeOK
  <2> QED BY <2>1, <2>2 DEF ParserStep
<1>2. /\ Len(ready') = Len(ready) + 1 /\ Len(ready) \in Nat
      /\ \A i \in 1..Len(ready) : ready'[i] = ready[i]
      /\ ready'[Len(ready) + 1] = [chunk |-> c, hash |-> h]
  BY <1>1, PublishAppends DEF TypeInv, TypeOK
<1>3. /\ committed \in Nat /\ committed =< Len(ready)
      /\ \A i \in pending : i \in 1..Len(ready)
  BY OffsetFacts DEF TypeInv
<1>4. \A d \in Chunk : row'[d] = IF d = c THEN h ELSE row[d]
  BY <1>1 DEF TypeInv, TypeOK
<1>5. EmbeddedIsCurrent'
  BY <1>1, <1>4 DEF EmbeddedIsCurrent, StillEmbedded
<1>6. ASSUME NEW i \in (committed' + 1)..Len(ready')
      PROVE  \/ i = Len(ready) + 1 /\ ready'[i].chunk = c /\ ready'[i].hash = h
             \/ /\ i \in (committed + 1)..Len(ready) /\ ready'[i] = ready[i]
                /\ ready[i].chunk # c /\ ready[i].chunk \in Chunk
  <2>1. i = Len(ready) + 1 \/ i \in (committed + 1)..Len(ready)
    BY <1>1, <1>2, <1>3
  <2>2. CASE i \in (committed + 1)..Len(ready)
    <3>1. i \in 1..Len(ready)
      BY <1>2, <1>3, <2>2
    <3> QED BY <1>2, <2>2, <3>1, LogMessage DEF Settled, TypeInv
  <2> QED BY <1>2, <2>1, <2>2
<1>7. \A i \in (committed' + 1)..Len(ready') : ready'[i].hash = row'[ready'[i].chunk]
  BY <1>4, <1>6 DEF SettledBatch
<1>8. \A d \in toDelete' : ~embeddedAt'[d]
  <2>1. \A d \in toDelete : d \in Chunk /\ ~embeddedAt[d]
    BY DEF SettledBatch, TypeInv, TypeOK
  <2> QED BY <1>1, <2>1 DEF StillEmbedded
<1>9. SettledBatch'
  BY <1>1, <1>2, <1>3, <1>7, <1>8 DEF SettledBatch
<1> QED BY <1>5, <1>9, ParserType

\* A tombstone is polled only for a chunk that has no row, hence no promise.
LEMMA PollSettled == SettledInv /\ Poll => SettledBatch'
<1> SUFFICES ASSUME SettledInv, Poll PROVE SettledBatch'
  OBVIOUS
<1> USE DEF SettledInv
<1>1. PICK k \in BatchSizes :
        toDelete' = toDelete \cup
          {ready[i].chunk : i \in {j \in Records(k) : ready[j].hash = Absent}}
  BY DEF Poll
<1>2. /\ Len(ready) \in Nat /\ position \in Nat /\ committed \in Nat
      /\ committed =< position /\ k \in Nat /\ position + k =< Len(ready)
  BY OffsetFacts, BatchFacts DEF TypeInv
<1>3. UNCHANGED <<row, embeddedAt, ready, committed, qdrant>> /\ pc' = "delete"
  BY DEF Poll
<1>4. ASSUME NEW i \in Records(k), ready[i].hash = Absent
      PROVE  ~embeddedAt[ready[i].chunk]
  <2>1. i \in (committed + 1)..Len(ready) /\ i \in 1..Len(ready)
    BY <1>1, <1>2 DEF Records
  <2>2. row[ready[i].chunk] = Absent
    BY <1>4, <2>1 DEF SettledBatch
  <2>3. ready[i].chunk \in Chunk
    BY <2>1, LogMessage DEF TypeInv
  <2> QED BY <2>2, <2>3 DEF EmbeddedIsCurrent
<1>5. \A c \in toDelete' : ~embeddedAt'[c]
  BY <1>1, <1>3, <1>4 DEF SettledBatch
<1> QED BY <1>3, <1>5 DEF SettledBatch

\* The commit only shortens the part of the log the invariant speaks of.
LEMMA CommitSettled == SettledInv /\ Commit => SettledInv'
<1> SUFFICES ASSUME SettledInv, Commit PROVE EmbeddedIsCurrent' /\ SettledBatch'
  BY EmbedderType DEF SettledInv, EmbedderStep
<1>1. /\ committed' = position /\ pc' = "poll"
      /\ UNCHANGED <<row, embeddedAt, ready, toDelete, qdrant, pending>>
  BY DEF Commit, SettledInv, TypeInv
<1>2. \A i \in (position + 1)..Len(ready) : i \in (committed + 1)..Len(ready)
  BY OffsetFacts DEF SettledInv, TypeInv
<1>3. EmbeddedIsCurrent'
  BY <1>1 DEF SettledInv, EmbeddedIsCurrent
<1>4. SettledBatch'
  BY <1>1, <1>2 DEF SettledInv, SettledBatch
<1> QED BY <1>3, <1>4

\* The remote calls, with or without the exception that may follow them.
LEMMA DeletesKeepPromise == SettledInv /\ qdrant' = WithoutPoints /\ UNCHANGED db
                              => EmbeddedIsCurrent'
BY DEF SettledInv, EmbeddedIsCurrent, SettledBatch, TypeInv, TypeOK, WithoutPoints

LEMMA UpsertKeepsPromise == SettledInv /\ qdrant' = WithPending /\ UNCHANGED db
                              => EmbeddedIsCurrent'
BY UpsertWritesRows DEF SettledInv, EmbeddedIsCurrent

LEMMA MarkKeepsPromise ==
  ASSUME SettledInv, pc = "mark", embeddedAt' = MarkedRows, UNCHANGED <<row, qdrant>>
  PROVE  EmbeddedIsCurrent'
BY MarkedIsCurrent DEF SettledInv, EmbeddedIsCurrent, MarkedRows

LEMMA UpsertSettled == SettledInv /\ Upsert => SettledBatch'
<1> SUFFICES ASSUME SettledInv, Upsert PROVE SettledBatch'
  OBVIOUS
<1>1. /\ qdrant' = WithPending /\ pc' = "mark" /\ pc = "upsert"
      /\ UNCHANGED <<row, embeddedAt, ready, committed, toDelete, pending>>
  BY DEF Upsert
<1>2. ASSUME NEW i \in pending PROVE WithPending[ready[i].chunk] = ready[i].hash
  <2>1. ready[i].chunk \in PendingChunks /\ ready[i].chunk \in Chunk
    BY PendingChunksType DEF PendingChunks, SettledInv, TypeInv
  <2> QED BY <2>1, UpsertWritesRows, PendingSaysRow
<1> QED BY <1>1, <1>2 DEF SettledInv, SettledBatch

LEMMA FlushFailsSettled == SettledInv /\ FlushFails => EmbeddedIsCurrent' /\ SettledBatch'
<1> SUFFICES ASSUME SettledInv, FlushFails PROVE EmbeddedIsCurrent' /\ SettledBatch'
  OBVIOUS
<1>1. pc' = "flush" /\ UNCHANGED <<row, ready, committed, toDelete>>
  BY DEF FlushFails
<1>2. CASE UNCHANGED <<qdrant, embeddedAt>>
  BY <1>1, <1>2 DEF SettledInv, EmbeddedIsCurrent, SettledBatch
<1>3. CASE pc = "delete" /\ qdrant' = WithoutPoints /\ UNCHANGED embeddedAt
  <2>1. EmbeddedIsCurrent'
    BY <1>1, <1>3, DeletesKeepPromise
  <2> QED BY <1>1, <1>3, <2>1 DEF SettledInv, SettledBatch
<1>4. CASE pc = "upsert" /\ qdrant' = WithPending /\ UNCHANGED embeddedAt
  <2>1. EmbeddedIsCurrent'
    BY <1>1, <1>4, UpsertKeepsPromise
  <2> QED BY <1>1, <1>4, <2>1 DEF SettledInv, SettledBatch
<1>5. CASE pc = "mark" /\ embeddedAt' = MarkedRows /\ UNCHANGED qdrant
  <2>1. EmbeddedIsCurrent'
    BY <1>1, <1>5, MarkKeepsPromise
  <2>2. toDelete = {}
    BY <1>5 DEF SettledInv, SettledBatch
  <2> QED BY <1>1, <2>1, <2>2 DEF SettledInv, SettledBatch
<1> QED BY <1>2, <1>3, <1>4, <1>5 DEF FlushFails

LEMMA EmbedderSettled == SettledInv /\ EmbedderStep => SettledInv'
<1> SUFFICES ASSUME SettledInv, EmbedderStep PROVE EmbeddedIsCurrent' /\ SettledBatch'
  BY EmbedderType DEF SettledInv
<1>1. CASE Poll
  <2>1. EmbeddedIsCurrent'
    BY <1>1 DEF Poll, SettledInv, EmbeddedIsCurrent
  <2> QED BY <1>1, <2>1, PollSettled
<1>2. CASE DeletePoints
  <2>1. EmbeddedIsCurrent'
    BY <1>2, DeletesKeepPromise DEF DeletePoints
  <2> QED BY <1>2, <2>1 DEF DeletePoints, SettledInv, SettledBatch
<1>3. CASE FilterDone
  BY <1>3 DEF FilterDone, SettledInv, EmbeddedIsCurrent, SettledBatch
<1>4. CASE Encode
  BY <1>4 DEF Encode, SettledInv, EmbeddedIsCurrent, SettledBatch
<1>5. CASE Upsert
  <2>1. EmbeddedIsCurrent'
    BY <1>5, UpsertKeepsPromise DEF Upsert
  <2> QED BY <1>5, <2>1, UpsertSettled
<1>6. CASE Mark
  <2>1. EmbeddedIsCurrent'
    BY <1>6, MarkKeepsPromise DEF Mark
  <2> QED BY <1>6, <2>1 DEF Mark, SettledInv, SettledBatch
<1>7. CASE Commit
  BY <1>7, CommitSettled DEF SettledInv
<1>8. CASE CommitLost
  BY <1>8 DEF CommitLost, SettledInv, EmbeddedIsCurrent, SettledBatch
<1>9. CASE FlushFails
  BY <1>9, FlushFailsSettled
<1>10. CASE IdleFlush
  <2>1. EmbeddedIsCurrent'
    BY <1>10, DeletesKeepPromise DEF IdleFlush
  <2> QED BY <1>10, <2>1 DEF IdleFlush, SettledInv, SettledBatch
<1>11. CASE Crash
  BY <1>11 DEF Crash, SettledInv, EmbeddedIsCurrent, SettledBatch
<1>12. CASE AwaitPoll
  BY <1>12 DEF AwaitPoll, SettledInv, EmbeddedIsCurrent, SettledBatch
<1>13. CASE EndAwait
  BY <1>13 DEF EndAwait, SettledInv, EmbeddedIsCurrent, SettledBatch
<1>14. CASE FlushProducer
  BY <1>14 DEF FlushProducer, SettledInv, EmbeddedIsCurrent, SettledBatch
<1>15. CASE LetterLeaves
  BY <1>15, LetterOnly DEF SettledInv, EmbeddedIsCurrent, SettledBatch
<1> QED
  BY <1>1, <1>2, <1>3, <1>4, <1>5, <1>6, <1>7, <1>8, <1>9, <1>10, <1>11, <1>12,
     <1>13, <1>14, <1>15
  DEF EmbedderStep

LEMMA StutterSettled == SettledInv /\ UNCHANGED vars => SettledInv'
<1> SUFFICES ASSUME SettledInv, UNCHANGED vars PROVE EmbeddedIsCurrent' /\ SettledBatch'
  BY StutterType DEF SettledInv
<1> QED BY DEF vars, SettledInv, EmbeddedIsCurrent, SettledBatch

LEMMA SettledInvariant == SettledSpec => []SettledInv
<1>1. SettledInv /\ [SettledNext]_vars => SettledInv'
  BY ParserSettled, EmbedderSettled, StutterSettled DEF SettledNext
<1> QED BY InitSettled, <1>1, PTL DEF SettledSpec

\* When chunks settle before they are written again, a row whose embedded_at
\* is set has the point it should have, through crashes, redelivery, failed
\* flushes and evictions.
THEOREM EmbeddedTellsTheTruth == SettledSpec => []EmbeddedIsCurrent
BY SettledInvariant, PTL DEF SettledInv

-------------------------------------------------------------------------------
(* No point outlives its row.  While no call has failed, a point without a  *)
(* row has a tombstone that the embedder will read again after a crash, and *)
(* one that the batch being flushed does not overtake.                      *)

Orphan(c) == row[c] = Absent /\ qdrant[c] # Absent

Covered(c) ==
  /\ AnnouncedAfter(c, committed)
  /\ pc \notin Starts =>
       AnnouncedAfter(c, position) \/ (pc = "delete" /\ c \in toDelete)

OrphanInv == faults = 0 => \A c \in Chunk : Orphan(c) => Covered(c)

LEMMA InitOrphan == Init => OrphanInv
BY DEF Init, OrphanInv, Orphan

\* A message at the end of the log: what was announced stays announced, and
\* the message itself lies after every offset of the embedder.
LEMMA AnnouncedStays ==
  ASSUME TypeOK, NEW c \in Chunk, NEW h \in Content, Publish(c, h),
         NEW d \in Chunk, NEW o \in 0..Len(ready)
  PROVE  /\ row'[d] = row[d] /\ AnnouncedAfter(d, o) =>
              \E i \in (o + 1)..Len(ready') : ready'[i] = [chunk |-> d, hash |-> row'[d]]
         /\ \E i \in (o + 1)..Len(ready') : ready'[i] = [chunk |-> c, hash |-> h]
<1>1. /\ Len(ready') = Len(ready) + 1 /\ Len(ready) \in Nat
      /\ \A i \in 1..Len(ready) : ready'[i] = ready[i]
      /\ ready'[Len(ready) + 1] = [chunk |-> c, hash |-> h]
  BY PublishAppends DEF TypeOK
<1>2. ASSUME row'[d] = row[d], AnnouncedAfter(d, o)
      PROVE  \E i \in (o + 1)..Len(ready') : ready'[i] = [chunk |-> d, hash |-> row'[d]]
  <2>1. PICK i \in (o + 1)..Len(ready) : ready[i] = [chunk |-> d, hash |-> row[d]]
    BY <1>2 DEF AnnouncedAfter
  <2>2. i \in (o + 1)..Len(ready') /\ ready'[i] = ready[i]
    BY <1>1
  <2> QED BY <1>2, <2>1, <2>2
<1>3. Len(ready) + 1 \in (o + 1)..Len(ready')
  BY <1>1
<1> QED BY <1>1, <1>2, <1>3

\* A message may be published for any chunk, as long as the row that has
\* disappeared, if one has, is the one the message is about.
LEMMA PublishOrphan ==
  ASSUME TypeOK, OrphanInv, NEW c \in Chunk, NEW h \in Content, Publish(c, h),
         row'[c] = h, \A d \in Chunk \ {c} : row'[d] = row[d],
         UNCHANGED <<committed, position, toDelete, qdrant, pc, faults>>
  PROVE  OrphanInv'
<1> SUFFICES ASSUME faults = 0, NEW d \in Chunk, Orphan(d)' PROVE Covered(d)'
  BY DEF OrphanInv
<1>1. committed \in 0..Len(ready) /\ position \in 0..Len(ready)
  BY OffsetFacts
<1>2. CASE d = c
  <2>1. \A o \in {committed, position} :
          \E i \in (o + 1)..Len(ready') : ready'[i] = [chunk |-> d, hash |-> row'[d]]
    BY <1>1, <1>2, AnnouncedStays
  <2> QED BY <2>1 DEF Covered, AnnouncedAfter
<1>3. CASE d # c
  <2>1. Orphan(d) /\ row'[d] = row[d]
    BY <1>3 DEF Orphan
  <2>2. Covered(d)
    BY <2>1 DEF OrphanInv
  <2>3. ASSUME NEW o \in {committed, position}, AnnouncedAfter(d, o)
        PROVE  \E i \in (o + 1)..Len(ready') :
                 ready'[i] = [chunk |-> d, hash |-> row'[d]]
    <3>1. o \in 0..Len(ready)
      BY <1>1
    <3> QED BY <2>1, <2>3, <3>1, AnnouncedStays
  <2> QED BY <2>2, <2>3 DEF Covered, AnnouncedAfter
<1> QED BY <1>2, <1>3

LEMMA ParserOrphan ==
  ASSUME SettledInv, OrphanInv, NEW c \in Chunk, ParserStep(c)
  PROVE  OrphanInv'
<1>1. TypeOK
  BY DEF SettledInv, TypeInv
<1>2. PICK h \in Content :
        /\ Publish(c, h)
        /\ row' = [row EXCEPT ![c] = h]
        /\ UNCHANGED <<committed, position, toDelete, qdrant, pc, faults>>
  BY DEF ParserStep, WriteChunk, DropChunk, Content
<1>3. row'[c] = h /\ \A d \in Chunk \ {c} : row'[d] = row[d]
  BY <1>1, <1>2 DEF TypeOK
<1> QED BY <1>1, <1>2, <1>3, PublishOrphan

\* A batch that reads a tombstone keeps it in to_delete; the others stay ahead.
LEMMA PollOrphan == SettledInv /\ OrphanInv /\ Poll => OrphanInv'
<1> SUFFICES ASSUME SettledInv, OrphanInv, Poll, faults = 0, NEW c \in Chunk, Orphan(c)
             PROVE  Covered(c)'
  BY DEF Poll, OrphanInv, Orphan
<1>1. TypeOK /\ position = committed /\ pc' = "delete"
      /\ UNCHANGED <<row, ready, committed>>
  BY DEF SettledInv, TypeInv, Poll
<1>2. PICK k \in BatchSizes :
        /\ toDelete' = toDelete \cup
             {ready[i].chunk : i \in {j \in Records(k) : ready[j].hash = Absent}}
        /\ position' = position + k
  BY DEF Poll
<1>3. PICK i \in (committed + 1)..Len(ready) : ready[i] = [chunk |-> c, hash |-> row[c]]
  BY DEF OrphanInv, Covered, AnnouncedAfter
<1>4. position \in Nat /\ committed \in Nat /\ Len(ready) \in Nat /\ k \in Nat
  BY <1>1, OffsetFacts, BatchFacts
<1>5. AnnouncedAfter(c, committed)'
  BY <1>1, <1>3 DEF AnnouncedAfter
<1>6. CASE i =< position + k
  <2>1. i \in Records(k)
    BY <1>1, <1>3, <1>4, <1>6 DEF Records
  <2>2. ready[i].chunk = c /\ ready[i].hash = Absent
    BY <1>3 DEF Orphan
  <2>3. c \in toDelete'
    BY <1>2, <2>1, <2>2
  <2> QED BY <1>1, <1>5, <2>3 DEF Covered
<1>7. CASE ~(i =< position + k)
  <2>1. i \in (position + k + 1)..Len(ready)
    BY <1>3, <1>4, <1>7
  <2>2. AnnouncedAfter(c, position)'
    BY <1>1, <1>2, <1>3, <2>1 DEF AnnouncedAfter
  <2> QED BY <1>5, <2>2 DEF Covered
<1> QED BY <1>6, <1>7

\* Where the log, the rows and the committed offset stay, it is enough that no
\* point appears for a chunk without a row.
LEMMA FlushOrphan ==
  ASSUME SettledInv, OrphanInv,
         UNCHANGED <<row, ready, committed, position, faults>>,
         \A c \in Chunk : Orphan(c)' => Orphan(c),
         \/ pc' \in Starts
         \/ pc \notin Starts /\ pc # "delete"
         \/ pc = "delete" /\ \A c \in toDelete : ~Orphan(c)'
         \/ pc \in Starts /\ position = committed
  PROVE  OrphanInv'
<1> SUFFICES ASSUME faults = 0, NEW c \in Chunk, Orphan(c)' PROVE Covered(c)'
  BY DEF OrphanInv
<1>1. Orphan(c) /\ Covered(c)
  BY DEF OrphanInv
<1>2. AnnouncedAfter(c, committed)'
  BY <1>1 DEF Covered, AnnouncedAfter
<1>3. AnnouncedAfter(c, position) => AnnouncedAfter(c, position)'
  BY DEF AnnouncedAfter
<1>4. CASE pc' \in Starts
  BY <1>2, <1>4 DEF Covered
<1>5. CASE pc \in Starts /\ position = committed
  BY <1>1, <1>2, <1>3, <1>5 DEF Covered
<1>6. CASE pc \notin Starts
  BY <1>1, <1>2, <1>3, <1>6 DEF Covered
<1> QED BY <1>4, <1>5, <1>6

LEMMA EmbedderOrphan == SettledInv /\ OrphanInv /\ EmbedderStep => OrphanInv'
<1> SUFFICES ASSUME SettledInv, OrphanInv, EmbedderStep PROVE OrphanInv'
  OBVIOUS
<1>0. TypeOK /\ toDelete \in SUBSET Chunk
  BY DEF SettledInv, TypeInv, TypeOK
<1>1. CASE Poll
  BY <1>1, PollOrphan
<1>2. CASE DeletePoints \/ IdleFlush
  <2>1. qdrant' = WithoutPoints
    BY <1>2 DEF DeletePoints, IdleFlush
  <2>2. \A c \in Chunk : WithoutPoints[c] = IF c \in toDelete THEN Absent ELSE qdrant[c]
    BY DEF WithoutPoints
  <2>3. \A c \in Chunk : Orphan(c)' => Orphan(c) /\ c \notin toDelete
    BY <1>2, <2>1, <2>2 DEF Orphan, DeletePoints, IdleFlush
  <2>4. CASE DeletePoints
    BY <1>0, <2>3, <2>4, FlushOrphan DEF DeletePoints
  <2>5. CASE IdleFlush
    <3>1. position = committed
      BY <2>5 DEF IdleFlush, SettledInv, TypeInv
    <3> QED BY <2>3, <2>5, <3>1, FlushOrphan DEF IdleFlush
  <2> QED BY <1>2, <2>4, <2>5
<1>3. CASE FilterDone \/ Encode \/ Mark \/ FlushProducer
  <2>1. \A c \in Chunk : Orphan(c)' => Orphan(c)
    BY <1>3 DEF Orphan, FilterDone, Encode, Mark, FlushProducer
  <2> QED BY <1>3, <2>1, FlushOrphan DEF FilterDone, Encode, Mark, FlushProducer
<1>4. CASE Upsert
  <2>1. \A c \in Chunk : Orphan(c)' => Orphan(c)
    BY <1>4, UpsertWritesRows DEF Orphan, Upsert
  <2> QED BY <1>4, <2>1, FlushOrphan DEF Upsert
<1>5. CASE Commit
  <2>1. committed' = position /\ pc' = "poll"
        /\ UNCHANGED <<row, ready, qdrant, faults>> /\ pc = "commit"
    BY <1>5 DEF Commit, SettledInv, TypeInv
  <2> QED BY <2>1 DEF OrphanInv, Orphan, Covered, AnnouncedAfter
<1>6. CASE CommitLost \/ FlushFails
  <2>1. faults \in Nat /\ faults' = faults + 1
    BY <1>6 DEF CommitLost, FlushFails, SettledInv, TypeInv, TypeOK
  <2>2. faults' # 0
    BY <2>1
  <2> QED BY <2>2 DEF OrphanInv
<1>7. CASE AwaitPoll \/ EndAwait \/ Crash
  <2>1. /\ UNCHANGED <<row, ready, committed, qdrant, faults>>
        /\ pc' \in Starts
    BY <1>7 DEF AwaitPoll, EndAwait, Crash
  <2> QED BY <2>1 DEF OrphanInv, Orphan, Covered, AnnouncedAfter
<1>8. CASE LetterLeaves
  BY <1>8, LetterOnly DEF OrphanInv, Orphan, Covered, AnnouncedAfter
<1> QED BY <1>1, <1>2, <1>3, <1>4, <1>5, <1>6, <1>7, <1>8 DEF EmbedderStep

LEMMA StutterOrphan == OrphanInv /\ UNCHANGED vars => OrphanInv'
BY DEF vars, OrphanInv, Orphan, Covered, AnnouncedAfter

\* A drained embedder has committed every tombstone, so no orphan is left.
LEMMA DrainedIsClean == SettledInv /\ OrphanInv => DrainedHasNoOrphan
<1>1. TypeOK => Len(ready) \in Nat
  BY OffsetFacts
<1>2. \A c \in Chunk : AnnouncedAfter(c, Len(ready)) /\ TypeOK => FALSE
  BY <1>1 DEF AnnouncedAfter
<1> QED BY <1>2 DEF OrphanInv, Orphan, Covered, DrainedHasNoOrphan, Drained, SettledInv, TypeInv

\* When chunks settle before they are written again and no call has failed, a
\* drained embedder leaves no point without a row, through any number of
\* crashes and redeliveries.
THEOREM DrainedLeavesNoOrphan == SettledSpec => []DrainedHasNoOrphan
<1>1. SettledInv /\ OrphanInv /\ [SettledNext]_vars => OrphanInv'
  BY ParserOrphan, EmbedderOrphan, StutterOrphan DEF SettledNext
<1> QED BY InitOrphan, <1>1, SettledInvariant, DrainedIsClean, PTL DEF SettledSpec

-------------------------------------------------------------------------------
(* Refinement: every step of the settled embedder is a step of the abstract *)
(* index or leaves it alone.                                                *)

Promised == {c \in Chunk : embeddedAt[c]}

LEMMA ParserRefines ==
  ASSUME SettledInv, NEW c \in Chunk, ParserStep(c)
  PROVE  Index!Next
<1> USE DEF SettledInv, TypeInv, TypeOK
<1>1. ASSUME NEW h \in Hash, WriteChunk(c, h) PROVE Index!Write(c, h)
  <2>1. Promised' = IF row[c] = h THEN Promised ELSE Promised \ {c}
    BY <1>1 DEF WriteChunk, StillEmbedded, Promised
  <2> QED BY <1>1, <2>1 DEF WriteChunk, Promised, Index!Write
<1>2. ASSUME DropChunk(c) PROVE Index!Remove(c)
  <2>1. Promised' = Promised \ {c}
    BY <1>2 DEF DropChunk, Promised
  <2> QED BY <1>2, <2>1 DEF DropChunk, Promised, Index!Remove
<1> QED BY <1>1, <1>2 DEF ParserStep, Index!Next

\* Deleting the points of tombstones clears chunks nothing is promised about.
LEMMA DeletesRefine ==
  ASSUME SettledInv, qdrant' = WithoutPoints, UNCHANGED db
  PROVE  Index!Next
<1>1. toDelete \in SUBSET Chunk /\ \A c \in toDelete : ~embeddedAt[c]
  BY DEF SettledInv, TypeInv, TypeOK, SettledBatch
<1>2. Index!Clear(toDelete)
  BY <1>1 DEF Index!Clear, WithoutPoints
<1> QED BY <1>1, <1>2 DEF Index!Next

LEMMA UpsertRefines ==
  ASSUME SettledInv, qdrant' = WithPending, UNCHANGED db
  PROVE  Index!Next
<1>1. PendingChunks \in SUBSET Chunk
  BY PendingChunksType DEF SettledInv, TypeInv
<1>2. WithPending = [c \in Chunk |-> IF c \in PendingChunks THEN row[c] ELSE qdrant[c]]
  BY UpsertWritesRows DEF WithPending
<1>3. Index!Refresh(PendingChunks)
  BY <1>2 DEF Index!Refresh
<1> QED BY <1>1, <1>3 DEF Index!Next

LEMMA MarkRefines ==
  ASSUME SettledInv, pc = "mark", embeddedAt' = MarkedRows, UNCHANGED <<row, qdrant>>
  PROVE  Index!Next
<1>1. PICK marked \in SUBSET Chunk : marked = {c \in PendingChunks : row[c] # Absent}
  BY PendingChunksType DEF SettledInv, TypeInv
<1>2. Promised' = Promised \cup marked
  BY <1>1 DEF Promised, MarkedRows, SettledInv, TypeInv, TypeOK
<1>3. \A c \in marked : row[c] # Absent /\ qdrant[c] = row[c]
  BY <1>1, MarkedIsCurrent
<1>4. Index!Promise(marked)
  BY <1>2, <1>3 DEF Index!Promise, Promised
<1> QED BY <1>4 DEF Index!Next

LEMMA StepRefines ==
  ASSUME SettledInv, [SettledNext]_vars
  PROVE  [Index!Next]_(Index!vars)
<1>1. CASE UNCHANGED <<row, qdrant, embeddedAt>>
  BY <1>1 DEF Index!vars
<1>2. CASE \E c \in Chunk : Settled(c) /\ ParserStep(c)
  BY <1>2, ParserRefines
<1>3. CASE DeletePoints
  BY <1>3, DeletesRefine DEF DeletePoints
<1>4. CASE Upsert
  BY <1>4, UpsertRefines DEF Upsert
<1>5. CASE Mark
  BY <1>5, MarkRefines DEF Mark
<1>6. CASE FlushFails
  <2>1. UNCHANGED row
    BY <1>6 DEF FlushFails
  <2> QED BY <1>1, <1>6, <2>1, DeletesRefine, UpsertRefines, MarkRefines DEF FlushFails
<1>7. CASE IdleFlush
  BY <1>7, DeletesRefine DEF IdleFlush
<1>8. CASE \/ AwaitPoll \/ EndAwait \/ Poll \/ FilterDone \/ Encode \/ Commit
           \/ CommitLost \/ FlushProducer \/ LetterLeaves \/ Crash
  BY <1>1, <1>8, LetterOnly
  DEF AwaitPoll, EndAwait, Poll, FilterDone, Encode, Commit, CommitLost, FlushProducer,
      Crash
<1>9. CASE UNCHANGED vars
  BY <1>1, <1>9 DEF vars
<1> QED
  BY <1>2, <1>3, <1>4, <1>5, <1>6, <1>7, <1>8, <1>9 DEF SettledNext, EmbedderStep

\* The settled embedder implements the abstract index of SearchIndex.tla with
\* embedded_at as its promise.
THEOREM ImplementsIndex == SettledSpec => IndexSpec
<1>1. Init => Index!Init
  BY DEF Init, Index!Init
<1>2. SettledInv /\ [SettledNext]_vars => [Index!Next]_(Index!vars)
  BY StepRefines
<1> QED BY <1>1, <1>2, SettledInvariant, PTL DEF SettledSpec, IndexSpec, Index!Spec

-------------------------------------------------------------------------------
(* The start-up task.  ApartSpec composes the embedder with it and with the  *)
(* repair script: SettledInv survives messages published a second time, so  *)
(* the task removes itself only when Qdrant holds the content of every row. *)

\* The repair resends what the rows say, and the parser waits until the task
\* is off, when nothing is left to resend.
ResendsRows ==
  /\ stage # "resend" => toSend = {}
  /\ \A m \in toSend : m \in Message /\ m.hash = row[m.chunk]

AutoInv == SettledInv /\ ResendsRows

LEMMA InitAuto == AutoInit => AutoInv
BY InitSettled DEF AutoInit, AutoInv, ResendsRows

\* A message published again says what its row says, like every unread one.
LEMMA ResendSettled ==
  ASSUME AutoInv, NEW m \in toSend, Resend(m)
  PROVE  SettledInv'
<1> USE DEF AutoInv, SettledInv, TypeInv
<1>1. /\ Publish(m.chunk, m.hash)
      /\ UNCHANGED <<row, embeddedAt, committed, position, fetched, pending, toDelete,
                     pc, qdrant, letters, crashes, faults>>
  BY DEF Resend
<1>2. m.chunk \in Chunk /\ m.hash \in Content /\ m.hash = row[m.chunk]
  BY DEF ResendsRows, Message
<1>3. /\ ready' \in Seq(Message) /\ Len(ready') = Len(ready) + 1 /\ Len(ready) \in Nat
      /\ \A i \in 1..Len(ready) : ready'[i] = ready[i]
      /\ ready'[Len(ready) + 1] = [chunk |-> m.chunk, hash |-> m.hash]
  BY <1>1, <1>2, PublishAppends DEF TypeOK
<1>4. /\ committed \in Nat /\ position \in Nat /\ fetched \in Nat
      /\ committed =< position /\ position =< fetched /\ fetched =< Len(ready)
      /\ \A i \in pending : i \in 1..Len(ready)
  BY OffsetFacts
<1>5. TypeInv'
  BY <1>1, <1>3, <1>4 DEF TypeOK
<1>6. ASSUME NEW i \in (committed' + 1)..Len(ready')
      PROVE  ready'[i].hash = row'[ready'[i].chunk]
  <2>1. CASE i = Len(ready) + 1
    BY <1>1, <1>2, <1>3, <2>1
  <2>2. CASE i \in (committed + 1)..Len(ready)
    <3>1. i \in 1..Len(ready)
      BY <1>4, <2>2
    <3> QED BY <1>1, <1>3, <2>2, <3>1 DEF SettledBatch
  <2> QED BY <1>1, <1>3, <1>4, <2>1, <2>2
<1>7. SettledBatch'
  BY <1>1, <1>3, <1>4, <1>6 DEF SettledBatch
<1> QED BY <1>1, <1>5, <1>7 DEF EmbeddedIsCurrent

LEMMA DrainsSettled == SettledInv /\ EmbedderDrains => SettledInv'
BY DEF EmbedderDrains, ProducerEnds, SettledInv, TypeInv, TypeOK, Step, EmbeddedIsCurrent,
       SettledBatch

\* The steps of the task that do not touch the embedder or its database.
LEMMA TaskLeavesEmbedder ==
  ASSUME \/ LogOn \/ FirstCount \/ DbUnreachable \/ CountAgain \/ FindUnembedded
         \/ RepairEnds
  PROVE  UNCHANGED vars
BY DEF LogOn, FirstCount, DbUnreachable, CountAgain, FindUnembedded, RepairEnds,
       embedder

LEMMA TaskSettled == AutoInv /\ TaskStep => SettledInv'
<1> SUFFICES ASSUME AutoInv, TaskStep PROVE SettledInv'
  OBVIOUS
<1> USE DEF AutoInv
<1>1. CASE Embeds \/ EmbedderDies \/ PowerOff
  BY <1>1, EmbedderSettled DEF Embeds, EmbedderDies, PowerOff, EmbedderStep
<1>2. CASE EmbedderDrains
  BY <1>2, DrainsSettled
<1>3. CASE Resends
  <2>1. ASSUME NEW m \in toSend, ResendFails(m) PROVE SettledInv'
    BY <2>1, BoundAssumption
    DEF ResendFails, SettledInv, TypeInv, TypeOK, EmbeddedIsCurrent, SettledBatch
  <2> QED BY <1>3, <2>1, ResendSettled DEF Resends
<1>4. CASE \/ LogOn \/ FirstCount \/ DbUnreachable \/ CountAgain \/ FindUnembedded
           \/ RepairEnds
  BY <1>4, TaskLeavesEmbedder, StutterSettled
<1> QED BY <1>1, <1>2, <1>3, <1>4 DEF TaskStep

\* Rows change only while the task is off; the query reads them as they are.
LEMMA TaskResends == AutoInv /\ TaskStep => ResendsRows'
<1> SUFFICES ASSUME AutoInv, TaskStep PROVE ResendsRows'
  OBVIOUS
<1> USE DEF AutoInv, ResendsRows
<1>1. UNCHANGED row
  BY LetterOnly
  DEF TaskStep, LogOn, FirstCount, DbUnreachable, Embeds, EmbedderDrains,
         EmbedderDies, CountAgain, FindUnembedded, Resends, Resend, ResendFails,
         RepairEnds, PowerOff, embedder, vars, AwaitPoll, EndAwait, Poll,
         DeletePoints, FilterDone, Encode, Upsert, Mark, Commit, CommitLost,
         FlushFails, FlushProducer, IdleFlush, Crash
<1>2. CASE FindUnembedded
  <2>1. \A c \in Chunk : row[c] \in Content
    BY DEF SettledInv, TypeInv, TypeOK
  <2>2. \A m \in toSend' : m \in Message /\ m.hash = row[m.chunk]
    BY <1>2, <2>1 DEF FindUnembedded, Message
  <2> QED BY <1>1, <1>2, <2>2 DEF FindUnembedded
<1>3. CASE Resends
  BY <1>1, <1>3 DEF Resends, Resend, ResendFails
<1>4. CASE RepairEnds \/ PowerOff
  BY <1>1, <1>4 DEF RepairEnds, PowerOff
<1>5. CASE \/ LogOn \/ FirstCount \/ DbUnreachable \/ Embeds \/ EmbedderDrains
           \/ EmbedderDies \/ CountAgain
  BY <1>1, <1>5 DEF LogOn, FirstCount, Uninstall, DbUnreachable, Embeds, EmbedderDrains,
                    EmbedderDies, CountAgain, task
<1> QED BY <1>2, <1>3, <1>4, <1>5 DEF TaskStep

LEMMA AutoStep == AutoInv /\ [ApartNext]_allVars => AutoInv'
<1> SUFFICES ASSUME AutoInv, [ApartNext]_allVars PROVE AutoInv'
  OBVIOUS
<1>1. CASE TaskStep
  BY <1>1, TaskSettled, TaskResends DEF AutoInv
<1>2. CASE stage = "off" /\ installed /\ Parses
  <2>1. PICK c \in Chunk : Settled(c) /\ ParserStep(c)
    BY <1>2 DEF Parses
  <2>2. SettledInv'
    BY <2>1, ParserSettled DEF AutoInv
  <2>3. ResendsRows'
    BY <1>2 DEF AutoInv, ResendsRows, Parses, task
  <2> QED BY <2>2, <2>3 DEF AutoInv
<1>3. CASE UNCHANGED allVars
  BY <1>3, StutterSettled DEF AutoInv, ResendsRows, allVars, embedder, vars, task
<1> QED BY <1>1, <1>2, <1>3 DEF ApartNext

LEMMA AutoInvariant == ApartSpec => []AutoInv
BY InitAuto, AutoStep, PTL DEF ApartSpec

\* The truth of embedded_at survives the rounds of the task and what its
\* repair publishes a second time.
THEOREM TaskKeepsPromise == ApartSpec => []EmbeddedIsCurrent
BY AutoInvariant, PTL DEF AutoInv, SettledInv

\* The count of main is zero only when no row is left to embed.
LEMMA NoneLeft == Left = 0 => \A c \in Chunk : ~Unembedded(c)
<1> DEFINE S == {c \in Chunk : Unembedded(c)}
<1>1. IsFiniteSet(S)
  BY ChunkAssumption, FS_Subset
<1>2. Cardinality(S) = 0 => S = {}
  BY <1>1, FS_EmptySet
<1> QED BY <1>2 DEF Left

\* When the task removes itself, Qdrant holds the content of every row, for
\* any number of chunks, rounds, crashes and failed batches.
THEOREM FinishedTellsTheTruth == ApartSpec => FinishedIsIndexed
<1>1. ASSUME AutoInv, [ApartNext]_allVars, installed, ~installed'
      PROVE  \A c \in Chunk : row[c] # Absent => qdrant[c] = row[c]
  <2>1. (FirstCount \/ CountAgain) /\ Left = 0
    BY <1>1 DEF ApartNext, TaskStep, allVars, task, embedder, Parses, LogOn, FirstCount,
                DbUnreachable, Embeds, EmbedderDrains, EmbedderDies, CountAgain,
                FindUnembedded, Resends, Resend, ResendFails, RepairEnds, PowerOff
  <2>2. \A c \in Chunk : row[c] # Absent => embeddedAt[c]
    BY <2>1, NoneLeft DEF Unembedded
  <2> QED BY <1>1, <2>2 DEF AutoInv, SettledInv, EmbeddedIsCurrent
<1> QED BY <1>1, AutoInvariant, PTL DEF ApartSpec, FinishedIsIndexed

LEMMA InitAutoOrphan == AutoInit => OrphanInv
BY InitOrphan DEF AutoInit

\* The rounds of the task keep the tombstones ahead of the orphans: what the
\* repair resends says what the rows say, and changes no row.
LEMMA AutoOrphan == AutoInv /\ OrphanInv /\ [ApartNext]_allVars => OrphanInv'
<1> SUFFICES ASSUME AutoInv, OrphanInv, [ApartNext]_allVars PROVE OrphanInv'
  OBVIOUS
<1>0. SettledInv /\ TypeOK
  BY DEF AutoInv, SettledInv, TypeInv
<1>1. CASE Embeds \/ EmbedderDies \/ PowerOff
  BY <1>0, <1>1, EmbedderOrphan DEF Embeds, EmbedderDies, PowerOff, EmbedderStep
<1>2. CASE EmbedderDrains
  BY <1>2 DEF EmbedderDrains, OrphanInv, Orphan, Covered, AnnouncedAfter
<1>3. CASE Resends
  <2>1. ASSUME NEW m \in toSend, Resend(m) PROVE OrphanInv'
    <3>1. m.chunk \in Chunk /\ m.hash \in Content /\ m.hash = row[m.chunk]
      BY DEF AutoInv, ResendsRows, Message
    <3>2. /\ Publish(m.chunk, m.hash)
          /\ UNCHANGED <<row, committed, position, toDelete, qdrant, pc, faults>>
      BY <2>1 DEF Resend
    <3> QED BY <1>0, <3>1, <3>2, PublishOrphan
  <2>2. ASSUME NEW m \in toSend, ResendFails(m) PROVE OrphanInv'
    <3>1. faults \in Nat /\ faults' = faults + 1
      BY <1>0, <2>2 DEF ResendFails, TypeOK
    <3>2. faults' # 0
      BY <3>1
    <3> QED BY <3>2 DEF OrphanInv
  <2> QED BY <1>3, <2>1, <2>2 DEF Resends
<1>4. CASE \/ LogOn \/ FirstCount \/ DbUnreachable \/ CountAgain \/ FindUnembedded
           \/ RepairEnds
  BY <1>4, TaskLeavesEmbedder, StutterOrphan
<1>5. CASE Parses
  BY <1>0, <1>5, ParserOrphan DEF Parses
<1>6. CASE UNCHANGED allVars
  BY <1>6, StutterOrphan DEF allVars, embedder
<1> QED BY <1>1, <1>2, <1>3, <1>4, <1>5, <1>6 DEF ApartNext, TaskStep

\* Whenever the queue is drained in a round of the task and no call has failed,
\* no point is left without a row, however often embedder, task and power died.
THEOREM TaskLeavesNoOrphan == ApartSpec => []DrainedHasNoOrphan
<1>1. AutoInv /\ OrphanInv => DrainedHasNoOrphan
  BY DrainedIsClean DEF AutoInv
<1> QED BY InitAutoOrphan, AutoOrphan, <1>1, AutoInvariant, PTL DEF ApartSpec

\* The composition implements the abstract index too: what the task publishes
\* and counts is invisible there.
THEOREM TaskImplementsIndex == ApartSpec => IndexSpec
<1>1. AutoInit => Index!Init
  BY DEF AutoInit, Init, Index!Init
<1>2. AutoInv /\ [ApartNext]_allVars => [Index!Next]_(Index!vars)
  <2> SUFFICES ASSUME AutoInv, [ApartNext]_allVars PROVE [Index!Next]_(Index!vars)
    OBVIOUS
  <2>1. CASE UNCHANGED <<row, qdrant, embeddedAt>>
    BY <2>1 DEF Index!vars
  <2>2. CASE EmbedderStep \/ \E c \in Chunk : Settled(c) /\ ParserStep(c)
    BY <2>2, StepRefines DEF AutoInv, SettledNext
  <2>3. CASE TaskStep
    <3>1. CASE Embeds \/ EmbedderDies \/ PowerOff
      BY <2>2, <3>1 DEF Embeds, EmbedderDies, PowerOff, EmbedderStep
    <3>2. CASE EmbedderDrains \/ Resends
      BY <2>1, <3>2 DEF EmbedderDrains, Resends, Resend, ResendFails
    <3>3. CASE \/ LogOn \/ FirstCount \/ DbUnreachable \/ CountAgain
               \/ FindUnembedded \/ RepairEnds
      BY <2>1, <3>3, TaskLeavesEmbedder DEF vars
    <3> QED BY <2>3, <3>1, <3>2, <3>3 DEF TaskStep
  <2>4. CASE Parses
    BY <2>2, <2>4 DEF Parses
  <2>5. CASE UNCHANGED allVars
    BY <2>1, <2>5 DEF allVars, embedder, vars
  <2> QED BY <2>3, <2>4, <2>5 DEF ApartNext
<1> QED BY <1>1, <1>2, AutoInvariant, PTL DEF ApartSpec, IndexSpec, Index!Spec
===============================================================================
