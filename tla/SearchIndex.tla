----------------------------- MODULE SearchIndex -----------------------------
(***************************************************************************)
(* What the indexing half of the pipeline promises, with no queue, no      *)
(* batch and no failure in it: a table of chunks, a vector index, and the  *)
(* set of chunks the pipeline has promised are searchable (the rows whose  *)
(* embedded_at is set).  A chunk is promised only while its point holds    *)
(* the content its row holds.  Embedder.tla implements this module when no *)
(* chunk is rewritten before the messages about it are consumed.           *)
(***************************************************************************)
CONSTANTS Chunk,     \* chunk identifiers
          Hash,      \* contents a chunk can have, told apart by content_hash
          Absent     \* no row, no point

VARIABLES row,       \* content of the chunk's row in Postgres
          point,     \* content of the chunk's point in Qdrant
          promised   \* chunks whose row says they are embedded

vars == <<row, point, promised>>

Content == Hash \cup {Absent}

TypeOK ==
  /\ row \in [Chunk -> Content]
  /\ point \in [Chunk -> Content]
  /\ promised \in SUBSET Chunk

Init ==
  /\ row = [c \in Chunk |-> Absent]
  /\ point = [c \in Chunk |-> Absent]
  /\ promised = {}

\* New content withdraws the promise; the same content again leaves it.
Write(c, h) ==
  /\ row' = [row EXCEPT ![c] = h]
  /\ promised' = IF row[c] = h THEN promised ELSE promised \ {c}
  /\ UNCHANGED point

Remove(c) ==
  /\ row' = [row EXCEPT ![c] = Absent]
  /\ promised' = promised \ {c}
  /\ UNCHANGED point

\* Points are removed only where nothing is promised.
Clear(S) ==
  /\ S \cap promised = {}
  /\ point' = [c \in Chunk |-> IF c \in S THEN Absent ELSE point[c]]
  /\ UNCHANGED <<row, promised>>

\* Points are brought to the content their rows hold now, never to another.
Refresh(S) ==
  /\ point' = [c \in Chunk |-> IF c \in S THEN row[c] ELSE point[c]]
  /\ UNCHANGED <<row, promised>>

Promise(S) ==
  /\ \A c \in S : row[c] # Absent /\ point[c] = row[c]
  /\ promised' = promised \cup S
  /\ UNCHANGED <<row, point>>

Next ==
  \/ \E c \in Chunk, h \in Hash : Write(c, h)
  \/ \E c \in Chunk : Remove(c)
  \/ \E S \in SUBSET Chunk : Clear(S) \/ Refresh(S) \/ Promise(S)

Spec == Init /\ [][Next]_vars

\* A promised chunk has a row, and its point holds the content of that row.
PromisedIsCurrent ==
  \A c \in promised : row[c] # Absent /\ point[c] = row[c]
==============================================================================
