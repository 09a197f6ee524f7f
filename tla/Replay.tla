-------------------------------- MODULE Replay --------------------------------
(***************************************************************************)
(* Changing the embedding model: init_stack.py creates a collection of the *)
(* new dimension, and the embedder is started with --from-beginning to     *)
(* read chunks.ready again (kafka_io.seek_to_beginning).  Composed with    *)
(* Embedder; the log is compacted by key as config.py declares it, and     *)
(* the key of a chunk's messages is the id of its document.                *)
(***************************************************************************)
EXTENDS Embedder, FiniteSets, SequencesExt

CONSTANT DocOf   \* the document a chunk belongs to: the key of its messages

VARIABLE replay  \* "none", "emptied" collection, "started" from offset 0

replayVars == <<vars, replay>>

\* Kafka cleans the closed segments, here the first n messages: of the
\* messages with one key the last is kept.
Survivors(n) ==
  {i \in DOMAIN ready :
     i > n \/ \A j \in (i + 1)..n : DocOf[ready[i].chunk] # DocOf[ready[j].chunk]}

Before(offset, S) == Cardinality({i \in S : i =< offset})

\* Offsets keep their order, which is all that the consumer's offsets say.
Compact(n) ==
  /\ pc \in Starts /\ fetched = position
  /\ LET kept == Survivors(n) IN
       /\ Survivors(n) # DOMAIN ready
       /\ ready' = [i \in 1..Cardinality(kept) |-> ready[SetToSortSeq(kept, <)[i]]]
       /\ committed' = Before(committed, kept)
       /\ position' = Before(position, kept) /\ fetched' = position'
  /\ UNCHANGED <<db, pending, toDelete, qdrant, letters, pc, bounds, replay>>

\* The embedder is stopped when it is done; the new collection is empty.
NewCollection ==
  /\ replay = "none" /\ pc = "poll" /\ committed = Len(ready)
  /\ qdrant' = [c \in Chunk |-> Absent]
  /\ pc' = "join"
  /\ replay' = "emptied"
  /\ ProducerEnds
  /\ UNCHANGED <<db, ready, offsets, pending, toDelete, bounds>>

\* --from-beginning, when the partition was assigned within three seconds
\* (otherwise nothing is sought and the loop goes on at the committed offset).
FromBeginning ==
  /\ replay = "emptied" /\ pc = "join"
  /\ position' = 0 /\ fetched' = 0
  /\ pc' = "poll"
  /\ replay' = "started"
  /\ UNCHANGED <<db, ready, committed, pending, toDelete, qdrant, letters, bounds>>

Consumes == EmbedderStep /\ replay # "emptied"
Parses   == replay = "none" /\ \E c \in Chunk : Settled(c) /\ ParserStep(c)

ReplayNext == \/ (Consumes \/ Parses) /\ UNCHANGED replay
              \/ \E n \in DOMAIN ready : Compact(n)
              \/ NewCollection \/ FromBeginning

ReplaySpec == Init /\ replay = "none" /\ [][ReplayNext]_replayVars

-------------------------------------------------------------------------------
\* "If the embedding model is changed, replaying chunks.ready from offset 0 is
\* all it takes to embed everything again": a replay read to the end, without
\* a failure, leaves a point for every row.
ReplayRestores ==
  replay = "started" /\ Drained /\ position = Len(ready) /\ faults = 0 /\ crashes = 0
    => \A c \in Chunk : row[c] # Absent => qdrant[c] = row[c]
===============================================================================
