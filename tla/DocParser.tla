------------------------------ MODULE DocParser ------------------------------
(***************************************************************************)
(* services/parser.py: the consumer of docs.raw that turns a page into a   *)
(* row of documents and its chunks, and tells the embedder about them on   *)
(* chunks.ready.                                                           *)
(*                                                                         *)
(* Three stores take part without a common transaction: Postgres (one      *)
(* transaction per page), the local queue of the Kafka producer, and the   *)
(* committed offset.  Each handler is cut where the process can die with   *)
(* one of them ahead of another.  The queue holds messages for chunks.ready*)
(* and dead letters for parse.dlq; both may be lost after the offset is    *)
(* committed.  The crawler is the environment; the blob store keeps one    *)
(* file per page, overwritten by every fetch.                              *)
(***************************************************************************)
EXTENDS Integers, Sequences

CONSTANTS Title,       \* page titles; doc_id maps them one to one to ids
          Canonical,   \* the title each page calls itself (redirects)
          Canary,      \* titles watched by the canary table
          Tolerance,   \* canary_tolerance, in percent
          Version,     \* page contents, told apart by content_hash
          Hash,        \* chunk contents, told apart by their content_hash
          Chars,       \* length of the text of each version, 0 if extraction fails
          MinBody,     \* shortest text that is stored; headings count
          ChunksOf,    \* the chunk contents each version is cut into; <<>> also for
                       \* a long enough text that is all headings (chunker.py:88)
          LostChunks,  \* what documents.content_hash may be at first: rows whose
                       \* chunks a past failure lost (parser.py:119-122)
          Absent,      \* no row, no point; in docs.raw, "deleted"
          MaxChunks,   \* longest sequence in ChunksOf
          MaxBatch,    \* max_poll_records
          MaxRaw,      \* bound: messages the crawler publishes
          MaxCrashes, MaxFaults   \* bounds: crashes; failed calls

ASSUME CanonicalAssumption ==
  /\ Canonical \in [Title -> Title]
  /\ \A t \in Title : Canonical[Canonical[t]] = Canonical[t]
\* CANARY_TITLES of seed_loader.py: no two of them lead to the same page.
ASSUME CanaryAssumption ==
  \A c, d \in Canary : Canonical[c] = Canonical[d] => c = d
ASSUME ChunksAssumption ==
  /\ ChunksOf \in [Version -> Seq(Hash)]
  /\ LostChunks \subseteq [Title -> Version \cup {Absent}]
  /\ Absent \notin Version \cup Hash
  /\ Canary \subseteq Title /\ Chars \in [Version -> Nat] /\ Tolerance \in Nat
  /\ MinBody \in Nat \ {0}
  /\ MaxChunks \in Nat /\ \A v \in Version : Len(ChunksOf[v]) =< MaxChunks

VARIABLES
  raw,           \* the log of docs.raw
  rawCommitted,  \* committed offset of the group "parser"
  rawPosition,   \* offset after the last polled record
  cursor,        \* offset of the record being handled
  blob,          \* version in each page's blob
  docHash,       \* documents.content_hash, or Absent
  chunkRows,     \* contents of the chunk rows of each document, by seq
  redirects,     \* aliases with a row in redirects
  baseline,      \* canary.baseline_chars, 0 before there is one
  alarms,        \* titles whose canary.status is ALERT
  parsed,        \* version extracted for the open transaction
  out,           \* the producer's local queue
  announced,     \* what chunks.ready, read to its end, says of each chunk
  dlqOut,        \* offsets whose dead letter is in the producer's local queue
  parseDlq,      \* offsets whose dead letter is in parse.dlq
  dlqLost,       \* history: offsets whose dead letter was lost
  torn,          \* history: a record was cut off, or its messages were lost
  pc, crashes, faults

watch   == <<baseline, alarms>>
store   == <<docHash, chunkRows, redirects, watch>>
deadLetters == <<dlqOut, parseDlq, dlqLost>>
crawler == <<raw, blob>>
offsets == <<rawCommitted, rawPosition>>
vars    == <<raw, blob, rawCommitted, rawPosition, cursor, store,
             parsed, out, announced, deadLetters, torn, pc, crashes, faults>>

Seqs    == 1..MaxChunks
Message == [doc : Title, seq : Seqs, hash : Hash \cup {Absent}]

Init ==
  /\ raw = <<>> /\ rawCommitted = 0 /\ rawPosition = 0 /\ cursor = 1
  /\ docHash \in LostChunks
  /\ blob = docHash
  /\ chunkRows = [t \in Title |-> <<>>]
  /\ redirects = {}
  /\ baseline = [t \in Canary |-> 0] /\ alarms = {}
  /\ parsed = Absent
  /\ out = <<>>
  /\ announced = [t \in Title |-> [s \in Seqs |-> Absent]]
  /\ dlqOut = {} /\ parseDlq = {} /\ dlqLost = {}
  /\ torn = FALSE
  /\ pc = "poll"
  /\ crashes = 0 /\ faults = 0

-------------------------------------------------------------------------------
(* The environment: what the crawler stores and publishes.                 *)

PageFetched(t, v) ==
  /\ Len(raw) < MaxRaw
  /\ blob' = [blob EXCEPT ![t] = v]
  /\ raw' = Append(raw, [title |-> t, version |-> v])
  /\ UNCHANGED <<offsets, cursor, store, parsed, out, announced, deadLetters, pc,
                 torn, crashes, faults>>

PageGone(t) ==
  /\ Len(raw) < MaxRaw
  /\ raw' = Append(raw, [title |-> t, version |-> Absent])
  /\ UNCHANGED <<offsets, cursor, blob, store, parsed, out, announced, deadLetters,
                 pc, torn, crashes, faults>>

-------------------------------------------------------------------------------
(* The producer: librdkafka delivers its queue in order, in the background. *)

Deliver ==
  /\ out # <<>>
  /\ LET m == Head(out) IN announced' = [announced EXCEPT ![m.doc][m.seq] = m.hash]
  /\ out' = Tail(out)
  /\ UNCHANGED <<crawler, offsets, cursor, store, parsed, deadLetters, pc, torn, crashes, faults>>

\* Retries run out; no delivery callback is installed, so nobody is told.
DeliveryFails ==
  /\ out # <<>> /\ faults < MaxFaults
  /\ out' = Tail(out)
  /\ torn' = TRUE
  /\ faults' = faults + 1
  /\ UNCHANGED <<crawler, offsets, cursor, store, parsed, announced, deadLetters, pc,
                 crashes>>

\* Dead letters go to a topic of their own, with no order to the rest.
DeliverLetter ==
  \E i \in dlqOut :
    /\ dlqOut' = dlqOut \ {i}
    /\ parseDlq' = parseDlq \cup {i}
    /\ UNCHANGED <<crawler, offsets, cursor, store, parsed, out, announced, dlqLost, torn, pc,
                   crashes, faults>>

LetterFails ==
  /\ faults < MaxFaults
  /\ \E i \in dlqOut : dlqOut' = dlqOut \ {i} /\ dlqLost' = dlqLost \cup {i}
  /\ faults' = faults + 1
  /\ UNCHANGED <<crawler, offsets, cursor, store, parsed, out, announced, parseDlq, torn, pc,
                 crashes>>

Tombstones(t, seqs) == [i \in 1..Len(seqs) |-> [doc |-> t, seq |-> seqs[i], hash |-> Absent]]
Upserts(t, chunks)  == [s \in 1..Len(chunks) |-> [doc |-> t, seq |-> s, hash |-> chunks[s]]]
SeqsFrom(n, m)      == [i \in 1..(m - n + 1) |-> n + i - 1]

-------------------------------------------------------------------------------
(* The parser.                                                             *)

Poll ==
  /\ pc = "poll"
  /\ \E k \in 1..MaxBatch :
       /\ rawPosition + k =< Len(raw)
       /\ rawPosition' = rawPosition + k
  /\ cursor' = rawPosition + 1
  /\ pc' = "handle"
  /\ UNCHANGED <<crawler, rawCommitted, store, parsed, out, announced, deadLetters,
                 torn, crashes, faults>>

Handling == pc = "handle" /\ cursor =< rawPosition
Page     == raw[cursor].title
Incoming == raw[cursor].version

\* _canary_title: the canaries a title is measured by, one of which is taken:
\* its own, or those of the aliases known to lead to it.
MutantCanaryOf(t) == Canary \cap {t}
CanaryOf(t) == IF t \in Canary THEN {t}
               ELSE {c \in Canary \cap redirects : Canonical[c] = t}

Deviates(base, n) == \/ 100 * n < (100 - Tolerance) * base
                     \/ 100 * n > (100 + Tolerance) * base

\* The first length measured is the baseline.  This is committed at once.
CheckCanary(t, n) ==
  IF CanaryOf(t) = {} THEN UNCHANGED watch
  ELSE \E c \in CanaryOf(t) :
         /\ baseline' = [baseline EXCEPT ![c] = IF @ = 0 THEN n ELSE @]
         /\ alarms' = IF Deviates(baseline'[c], n) THEN alarms \cup {c} ELSE alarms \ {c}

\* handle's shortcut: same hash, chunks are there, not a canary page.  The row
\* looked up is that of the requested title, before redirects are folded.
MutantUnchanged == docHash[Page] = Incoming /\ CanaryOf(Page) = {}
Unchanged == /\ docHash[Page] = Incoming
             /\ chunkRows[Page] # <<>>
             /\ CanaryOf(Page) = {}

MutantNextRecord == cursor' = cursor /\ pc' = "handle"
NextRecord == cursor' = cursor + 1 /\ pc' = "handle"

HandleUnchanged ==
  /\ Handling /\ Incoming # Absent /\ Unchanged
  /\ NextRecord
  /\ UNCHANGED <<crawler, offsets, store, parsed, out, announced, deadLetters,
                 torn, crashes, faults>>

\* send(producer, Topics.PARSE_DLQ, ...): queued, as everything the parser sends.
SendDeadLetter == dlqOut' = dlqOut \cup {cursor} /\ UNCHANGED <<parseDlq, dlqLost>>

\* ExtractionError, or fewer than 50 characters, which the canary sees: the page
\* is for parse.dlq.
HandleUnparseable ==
  /\ Handling /\ Incoming # Absent /\ ~Unchanged
  /\ Chars[blob[Page]] < MinBody
  /\ IF Chars[blob[Page]] = 0 THEN UNCHANGED watch ELSE CheckCanary(Page, Chars[blob[Page]])
  /\ SendDeadLetter
  /\ NextRecord
  /\ UNCHANGED <<crawler, offsets, docHash, chunkRows, redirects, parsed, out, announced,
                 torn, crashes, faults>>

Target == Canonical[Page]

\* The chunks past the end of the new version.
MutantStaleTail(chunks) == <<>>
StaleTail(chunks) == SeqsFrom(Len(chunks) + 1, Len(chunkRows[Target]))

\* The length is checked, the redirect recorded, the transaction opened, and
\* every message queued.  A text of headings alone has no chunks: its row is
\* written without any.
BeginWrite ==
  /\ Handling /\ Incoming # Absent /\ ~Unchanged
  /\ Chars[blob[Page]] >= MinBody
  /\ CheckCanary(Page, Chars[blob[Page]])
  /\ redirects' = IF Target # Page THEN redirects \cup {Page} ELSE redirects
  /\ parsed' = blob[Page]
  /\ LET chunks == ChunksOf[blob[Page]] IN
       out' = out \o Tombstones(Target, StaleTail(chunks)) \o Upserts(Target, chunks)
  /\ pc' = "write"
  /\ UNCHANGED <<crawler, offsets, cursor, docHash, chunkRows, announced, deadLetters,
                 torn, crashes, faults>>

\* The rows of the document after the transaction: the tail is deleted.
MutantRowsAfter(old, chunks) == chunks \o SubSeq(old, Len(chunks) + 1, Len(old))
RowsAfter(old, chunks) == chunks

CommitWrite ==
  /\ pc = "write"
  /\ docHash' = [docHash EXCEPT ![Target] = Incoming]
  /\ chunkRows' = [chunkRows EXCEPT ![Target] = RowsAfter(@, ChunksOf[parsed])]
  /\ parsed' = Absent
  /\ NextRecord
  /\ UNCHANGED <<crawler, offsets, redirects, watch, out, announced, deadLetters, torn, crashes,
                 faults>>

\* An exception: main queues a dead letter and goes on.  A transaction
\* rolls back; what was queued for chunks.ready stays queued.
HandleFails ==
  /\ Handling \/ pc \in {"write", "delete"}
  /\ faults < MaxFaults
  /\ SendDeadLetter
  /\ parsed' = Absent
  /\ torn' = (torn \/ pc # "handle")
  /\ faults' = faults + 1
  /\ NextRecord
  /\ UNCHANGED <<crawler, offsets, store, out, announced, crashes>>

\* delete_document: tombstones first, then the row with its chunks (CASCADE).
BeginDelete ==
  /\ Handling /\ Incoming = Absent
  /\ out' = out \o Tombstones(Page, SeqsFrom(1, Len(chunkRows[Page])))
  /\ pc' = "delete"
  /\ UNCHANGED <<crawler, offsets, cursor, store, parsed, announced, deadLetters,
                 torn, crashes, faults>>

DeleteRows ==
  /\ pc = "delete"
  /\ docHash' = [docHash EXCEPT ![Page] = Absent]
  /\ chunkRows' = [chunkRows EXCEPT ![Page] = <<>>]
  /\ NextRecord
  /\ UNCHANGED <<crawler, offsets, redirects, watch, parsed, out, announced, deadLetters,
                 torn, crashes, faults>>

\* producer.flush() returns when the queue is empty.
Flush ==
  /\ pc = "handle" /\ cursor > rawPosition
  /\ out = <<>> /\ dlqOut = {}
  /\ pc' = "commit"
  /\ UNCHANGED <<crawler, offsets, cursor, store, parsed, out, announced, deadLetters,
                 torn, crashes, faults>>

\* ... or after 30 seconds, and its result is not looked at.
FlushTimesOut ==
  /\ pc = "handle" /\ cursor > rawPosition
  /\ out # <<>> \/ dlqOut # {}
  /\ faults < MaxFaults
  /\ pc' = "commit"
  /\ faults' = faults + 1
  /\ UNCHANGED <<crawler, offsets, cursor, store, parsed, out, announced, deadLetters,
                 torn, crashes>>

Commit ==
  /\ pc = "commit"
  /\ rawCommitted' = rawPosition
  /\ pc' = "poll"
  /\ UNCHANGED <<crawler, rawPosition, cursor, store, parsed, out, announced,
                 deadLetters, torn, crashes, faults>>

CommitLost ==
  /\ pc = "commit" /\ faults < MaxFaults
  /\ rawPosition' = rawCommitted
  /\ pc' = "poll"
  /\ faults' = faults + 1
  /\ UNCHANGED <<crawler, rawCommitted, cursor, store, parsed, out, announced,
                 deadLetters, torn, crashes>>

\* The process dies and is started again: the open transaction rolls back and
\* the local queue is gone.
Crash ==
  /\ crashes < MaxCrashes
  /\ rawPosition' = rawCommitted
  /\ parsed' = Absent
  /\ out' = <<>>
  /\ dlqOut' = {} /\ dlqLost' = dlqLost \cup dlqOut
  /\ pc' = "poll"
  /\ torn' = (torn \/ out # <<>> \/ pc \in {"write", "delete"})
  /\ crashes' = crashes + 1
  /\ UNCHANGED <<crawler, rawCommitted, cursor, store, announced, parseDlq, faults>>

-------------------------------------------------------------------------------
(* The specifications.                                                     *)

Handle == \/ HandleUnchanged \/ HandleUnparseable \/ BeginWrite \/ CommitWrite
          \/ BeginDelete \/ DeleteRows

ParserStep == Poll \/ Handle \/ Deliver \/ DeliverLetter \/ Flush \/ Commit

Fault == HandleFails \/ DeliveryFails \/ LetterFails \/ FlushTimesOut \/ CommitLost

CrawlerStep == \E t \in Title : PageGone(t) \/ \E v \in Version : PageFetched(t, v)

Next == ParserStep \/ Fault \/ Crash \/ CrawlerStep

Spec == Init /\ [][Next]_vars

\* The loop of main and the producer's thread take their next step.
Fairness == WF_vars(Poll) /\ WF_vars(Handle) /\ WF_vars(Deliver) /\ WF_vars(DeliverLetter)
            /\ WF_vars(Flush) /\ WF_vars(Commit)

FairSpec == Spec /\ Fairness

-------------------------------------------------------------------------------
(* Properties.                                                             *)

\* The document a message of docs.raw is about, and what it makes of its row.
About(i) == IF raw[i].version = Absent THEN raw[i].title ELSE Canonical[raw[i].title]

\* Whatever changes a document leaves it with the chunks of one fetch of its page,
\* all of them and no others, or with no row and no chunks; so a document that
\* lost its chunks regains all.  (smoke_test's "no document without chunks" asks
\* for more than the code keeps: a page of headings alone is stored without.)
Whole(t) ==
  IF docHash[t] = Absent
    THEN chunkRows[t] = <<>>
    ELSE \E k \in 1..Len(raw) : /\ raw[k].version # Absent /\ About(k) = t
                                /\ Chars[raw[k].version] >= MinBody
                                /\ chunkRows[t] = ChunksOf[raw[k].version]

DocumentIsWhole ==
  [][\A t \in Title : Whole(t)' \/ UNCHANGED <<docHash[t], chunkRows[t]>>]_vars

\* The records a dead letter was sent for: it is queued, delivered, or lost.
DeadLettered == dlqOut \cup parseDlq \cup dlqLost

\* A committed page is in the database as that message or a later one about the
\* same document left it, and whole, even if its chunks were once lost; or a dead
\* letter was sent for it.  (Nothing more: the letter need not reach parse.dlq,
\* since the offset is committed whether or not it was delivered.)
CommittedIsStored ==
  \A i \in (1..rawCommitted) \ DeadLettered :
    /\ \E k \in i..Len(raw) : About(k) = About(i) /\ docHash[About(i)] = raw[k].version
    /\ Whole(About(i))

Drained == pc = "poll" /\ rawCommitted = Len(raw) /\ out = <<>> /\ ~torn

\* Once docs.raw is consumed, whoever reads chunks.ready to its end holds
\* exactly the chunk rows, through crashes, replays, redirects and flushes that
\* time out, as long as no message was lost and no record cut off between its
\* messages and its transaction.  (After that nothing repairs it: the page is
\* redelivered, has the stored hash, and counts as unchanged.)
ReadyMatchesRows ==
  Drained => \A t \in Title, s \in Seqs :
              announced[t][s] = IF s =< Len(chunkRows[t]) THEN chunkRows[t][s] ELSE Absent

\* The last fetch of a canary page, under its own title or, once its redirect is
\* known, under the canonical one, decides its alarm: unchanged pages, replays,
\* crashes and pages too short to store make no difference.  (Pages that cannot
\* be extracted at all do: they raise no alarm.  And the baseline may be the
\* length of a page too short to store.)
CanaryIsCurrent ==
  pc = "poll" /\ rawCommitted = Len(raw) =>
    \A c \in Canary, i \in 1..Len(raw) :
      LET about(k) == raw[k].version # Absent /\ raw[k].title \in {c, Canonical[c]}
          well(k)  == faults = 0 \/ k \notin DeadLettered
          known    == /\ \E j \in 1..(i - 1) : about(j) /\ raw[j].title = c
                      /\ \A j \in 1..(i - 1) : about(j) /\ raw[j].title = c =>
                           well(j) /\ Chars[raw[j].version] >= MinBody
      IN  /\ about(i) /\ well(i) /\ \A k \in (i + 1)..Len(raw) : ~about(k)
          /\ Chars[raw[i].version] > 0
          /\ raw[i].title = c \/ known
          => c \in alarms <=> Deviates(baseline[c], Chars[raw[i].version])

\* Every page published is in the end handled and committed, and nothing stays queued.
RawDrains == <>[](rawCommitted = Len(raw) /\ out = <<>> /\ dlqOut = {})
===============================================================================
