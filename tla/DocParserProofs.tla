---------------------------- MODULE DocParserProofs ----------------------------
(***************************************************************************)
(* Proofs about DocParser.tla, for every set of pages, contents and        *)
(* redirects, every batch size and every bound: documents are whole, what  *)
(* is committed is stored, chunks.ready agrees with the rows while nothing *)
(* was torn, and the last fetch of a canary decides its alarm.  And about  *)
(* Chunker.tla, which cuts the documents, for every document and limit.    *)
(***************************************************************************)
EXTENDS DocParser, Chunker, TLAPS, SequenceTheorems, WellFoundedInduction

-------------------------------------------------------------------------------
(* Types, and where the loop is.                                           *)

Steps == {"poll", "handle", "write", "delete", "commit"}
Raw   == [title : Title, version : Version \cup {Absent}]

TypeInv ==
  /\ raw \in Seq(Raw)
  /\ rawCommitted \in Nat /\ rawPosition \in Nat /\ cursor \in Nat \ {0}
  /\ blob \in [Title -> Version \cup {Absent}]
  /\ docHash \in [Title -> Version \cup {Absent}]
  /\ chunkRows \in [Title -> Seq(Hash)]
  /\ parsed \in Version \cup {Absent}
  /\ out \in Seq(Message)
  /\ announced \in [Title -> [Seqs -> Hash \cup {Absent}]]
  /\ faults \in Nat
  /\ pc \in Steps

\* A batch lies between what is committed and what is polled.
LoopInv ==
  /\ rawCommitted =< rawPosition /\ rawPosition =< Len(raw)
  /\ pc = "poll" => rawPosition = rawCommitted
  /\ pc # "poll" => rawCommitted < cursor /\ cursor =< rawPosition + 1
  /\ pc \in {"write", "delete"} => cursor =< rawPosition
  /\ pc = "commit" => cursor = rawPosition + 1

\* What is fetched is in its blob: that of the message, or of a later one.
Fetched(i, t) == i \in 1..Len(raw) /\ raw[i].title = t /\ raw[i].version # Absent

BlobInv ==
  \A t \in Title, i \in 1..Len(raw) : Fetched(i, t) =>
    /\ \E k \in 1..Len(raw) : Fetched(k, t) /\ raw[k].version = blob[t]
    /\ (\A k \in 1..Len(raw) : i < k => ~Fetched(k, t)) => blob[t] = raw[i].version

\* Only canonical titles have chunks, and these are whole; what is to be written
\* is a fetch of the page in hand, long enough to store.
ToWrite(v, t) == \E k \in 1..Len(raw) : Fetched(k, t) /\ raw[k].version = v

RowInv ==
  /\ \A t \in Title : /\ Len(chunkRows[t]) =< MaxChunks
                      /\ chunkRows[t] # <<>> => Canonical[t] = t /\ Whole(t)
  /\ pc = "write" => /\ Incoming # Absent /\ parsed \in Version
                     /\ Chars[parsed] >= MinBody /\ ToWrite(parsed, Page)
  /\ pc = "delete" => Incoming = Absent

ParserInv == TypeInv /\ LoopInv /\ BlobInv /\ RowInv

LEMMA ParserInit == Init => ParserInv
<1> SUFFICES ASSUME Init PROVE ParserInv
  OBVIOUS
<1>1. /\ docHash \in [Title -> Version \cup {Absent}] /\ Len(raw) = 0
      /\ 1..Len(raw) = {} /\ MaxChunks \in Nat
  BY ChunksAssumption DEF Init
<1>2. TypeInv
  <2>1. /\ docHash \in [Title -> Version \cup {Absent}] /\ blob = docHash
        /\ raw \in Seq(Raw) /\ out \in Seq(Message)
        /\ chunkRows \in [Title -> Seq(Hash)]
    BY <1>1 DEF Init
  <2>2. /\ announced \in [Title -> [Seqs -> Hash \cup {Absent}]]
        /\ parsed = Absent /\ faults = 0 /\ pc = "poll"
        /\ rawCommitted = 0 /\ rawPosition = 0 /\ cursor = 1
    BY DEF Init
  <2> QED
    BY <2>1, <2>2 DEF TypeInv, Steps
<1>3. LoopInv /\ BlobInv
  BY <1>1 DEF Init, LoopInv, BlobInv
<1>4. RowInv
  BY <1>1 DEF Init, RowInv
<1> QED
  BY <1>2, <1>3, <1>4 DEF ParserInv

-------------------------------------------------------------------------------
(* The log grows; what it held stays.                                      *)

LEMMA RawStep ==
  ASSUME ParserInv, [Next]_vars
  PROVE  /\ raw' \in Seq(Raw) /\ Len(raw) =< Len(raw')
         /\ \A i \in 1..Len(raw) : i \in 1..Len(raw') /\ raw'[i] = raw[i]
<1>1. raw \in Seq(Raw)
  BY DEF ParserInv, TypeInv
<1>2. CASE CrawlerStep
  <2>1. PICK m \in Raw : raw' = Append(raw, m)
    BY <1>2 DEF CrawlerStep, PageGone, PageFetched, Raw
  <2> QED
    BY <1>1, <2>1
<1>3. CASE ~CrawlerStep
  <2>1. raw' = raw
    BY <1>3 DEF Next, ParserStep, Poll, Handle, HandleUnchanged, HandleUnparseable, BeginWrite,
       CommitWrite, BeginDelete, DeleteRows, Deliver, DeliverLetter, Flush, Commit, Fault, HandleFails,
       DeliveryFails, LetterFails, FlushTimesOut, CommitLost, Crash, crawler, vars
  <2> QED
    BY <1>1, <2>1
<1> QED
  BY <1>2, <1>3

\* The record being handled is one of the log; a page to parse has a blob.
LEMMA RecordInHand ==
  ASSUME ParserInv, Handling \/ pc \in {"write", "delete"}
  PROVE  /\ cursor \in 1..Len(raw) /\ Page \in Title
         /\ Target \in Title /\ Canonical[Target] = Target
         /\ Incoming \in Version \cup {Absent}
         /\ Incoming # Absent => blob[Page] \in Version /\ ToWrite(blob[Page], Page)
<1>1. cursor \in 1..Len(raw) /\ raw[cursor] \in Raw
  BY DEF ParserInv, TypeInv, LoopInv, Handling
<1>2. Page \in Title /\ Incoming \in Version \cup {Absent}
  BY <1>1 DEF Page, Incoming, Raw
<1>3. Incoming # Absent => blob[Page] \in Version /\ ToWrite(blob[Page], Page)
  <2> SUFFICES ASSUME Incoming # Absent PROVE blob[Page] \in Version /\ ToWrite(blob[Page], Page)
    OBVIOUS
  <2>1. Fetched(cursor, Page)
    BY <1>1 DEF Fetched, Page, Incoming
  <2>2. PICK k \in 1..Len(raw) : Fetched(k, Page) /\ raw[k].version = blob[Page]
    BY <1>1, <1>2, <2>1 DEF ParserInv, BlobInv
  <2>3. raw[k] \in Raw
    BY DEF ParserInv, TypeInv
  <2> QED
    BY <2>2, <2>3 DEF Fetched, Raw, ToWrite
<1> QED
  BY <1>1, <1>2, <1>3, CanonicalAssumption DEF Target

\* A whole document that nobody writes stays whole, whatever is fetched.
LEMMA WholeStays ==
  ASSUME ParserInv, [Next]_vars, NEW t \in Title, UNCHANGED <<docHash[t], chunkRows[t]>>, Whole(t)
  PROVE  Whole(t)'
BY RawStep DEF Whole, About

LEMMA ToWriteStays ==
  ASSUME ParserInv, [Next]_vars, NEW v, NEW t, ToWrite(v, t)
  PROVE  ToWrite(v, t)'
BY RawStep DEF ToWrite, Fetched

-------------------------------------------------------------------------------
(* The messages of one page.                                               *)

LEMMA MessageTypes ==
  ASSUME NEW t \in Title
  PROVE  /\ \A n, m \in Nat : m =< MaxChunks /\ n >= 1 =>
              Tombstones(t, SeqsFrom(n, m)) \in Seq(Message)
         /\ \A v \in Version : Upserts(t, ChunksOf[v]) \in Seq(Message)
<1>1. ASSUME NEW n \in Nat, NEW m \in Nat, m =< MaxChunks, n >= 1
      PROVE  Tombstones(t, SeqsFrom(n, m)) \in Seq(Message)
  <2> DEFINE l == IF n =< m THEN m - n + 1 ELSE 0
  <2>1. l \in Nat /\ 1..(m - n + 1) = 1..l
    BY <1>1
  <2>2. \A i \in 1..l : n + i - 1 \in Seqs
    BY <1>1, ChunksAssumption DEF Seqs
  <2>3. SeqsFrom(n, m) = [i \in 1..l |-> n + i - 1]
    BY <2>1 DEF SeqsFrom
  <2> HIDE DEF l
  <2>4. Len(SeqsFrom(n, m)) = l /\ \A i \in 1..l : SeqsFrom(n, m)[i] = n + i - 1
    BY <2>1, <2>3, LenProperties
  <2> DEFINE q == SeqsFrom(n, m)
  <2> HIDE DEF q
  <2>5. \A i \in 1..Len(q) : [doc |-> t, seq |-> q[i], hash |-> Absent] \in Message
    BY <2>2, <2>4 DEF Message, q
  <2>6. Tombstones(t, q) \in Seq(Message)
    BY <2>1, <2>4, <2>5 DEF Tombstones, q
  <2> QED
    BY <2>6 DEF q
<1>2. ASSUME NEW v \in Version PROVE Upserts(t, ChunksOf[v]) \in Seq(Message)
  <2> DEFINE c == ChunksOf[v]
  <2>1. c \in Seq(Hash) /\ Len(c) =< MaxChunks /\ MaxChunks \in Nat
    BY ChunksAssumption
  <2> HIDE DEF c
  <2>2. \A s \in 1..Len(c) : [doc |-> t, seq |-> s, hash |-> c[s]] \in Message
    BY <2>1 DEF Message, Seqs
  <2>3. Upserts(t, c) \in Seq(Message)
    BY <2>1, <2>2 DEF Upserts
  <2> QED
    BY <2>3 DEF c
<1> QED
  BY <1>1, <1>2

-------------------------------------------------------------------------------
(* Each action keeps the types and the loop.                               *)

LEMMA FetchedStep ==
  ASSUME raw \in Seq(Raw), NEW m \in Raw, raw' = Append(raw, m), NEW u, NEW i
  PROVE  Fetched(i, u)' <=> \/ Fetched(i, u)
                            \/ i = Len(raw) + 1 /\ m.title = u /\ m.version # Absent
<1>1. /\ Len(raw) \in Nat /\ Len(raw') = Len(raw) + 1 /\ raw'[Len(raw) + 1] = m
      /\ \A k \in 1..Len(raw) : raw'[k] = raw[k]
  OBVIOUS
<1>2. /\ i \in 1..(Len(raw) + 1) <=> i \in 1..Len(raw) \/ i = Len(raw) + 1
      /\ Len(raw) + 1 \notin 1..Len(raw)
  BY <1>1
<1> QED
  BY <1>1, <1>2 DEF Fetched

LEMMA CrawlerKeeps == ParserInv /\ CrawlerStep => ParserInv'
<1> SUFFICES ASSUME ParserInv, CrawlerStep PROVE ParserInv'
  OBVIOUS
<1> USE DEF ParserInv
<1>1. /\ UNCHANGED <<rawCommitted, rawPosition, cursor, docHash, chunkRows, parsed, out,
                     announced, faults, pc>>
  BY DEF CrawlerStep, PageGone, PageFetched, offsets, store
<1>2. PICK m \in Raw : /\ raw' = Append(raw, m)
                       /\ blob' = IF m.version = Absent THEN blob
                                  ELSE [blob EXCEPT ![m.title] = m.version]
  <2>1. ASSUME NEW t \in Title, PageGone(t)
        PROVE  \E m \in Raw : /\ raw' = Append(raw, m)
                              /\ blob' = IF m.version = Absent THEN blob
                                         ELSE [blob EXCEPT ![m.title] = m.version]
    <3>1. [title |-> t, version |-> Absent] \in Raw
      BY DEF Raw
    <3> QED
      BY <2>1, <3>1 DEF PageGone
  <2>2. ASSUME NEW t \in Title, NEW v \in Version, PageFetched(t, v)
        PROVE  \E m \in Raw : /\ raw' = Append(raw, m)
                              /\ blob' = IF m.version = Absent THEN blob
                                         ELSE [blob EXCEPT ![m.title] = m.version]
    <3>1. [title |-> t, version |-> v] \in Raw /\ v # Absent
      BY ChunksAssumption DEF Raw
    <3> QED
      BY <2>2, <3>1 DEF PageFetched
  <2> QED
    BY <2>1, <2>2 DEF CrawlerStep
<1>3. /\ raw \in Seq(Raw) /\ raw' \in Seq(Raw) /\ Len(raw) \in Nat /\ Len(raw') = Len(raw) + 1
      /\ \A i \in 1..Len(raw) : raw'[i] = raw[i]
      /\ raw'[Len(raw) + 1] = m
      /\ m.title \in Title /\ m.version \in Version \cup {Absent}
  BY <1>2 DEF TypeInv, Raw
<1>4. blob' \in [Title -> Version \cup {Absent}]
  BY <1>2, <1>3 DEF TypeInv
<1>5. TypeInv' /\ LoopInv'
  BY <1>1, <1>3, <1>4 DEF TypeInv, LoopInv
<1>6. RowInv'
  <2>1. pc \in {"write", "delete"} => Incoming' = Incoming /\ Page' = Page
    BY <1>1, <1>3, RecordInHand DEF Incoming, Page
  <2>2. \A t \in Title : Whole(t) => Whole(t)'
    BY <1>1, WholeStays DEF Next
  <2>3. ToWrite(parsed, Page) => ToWrite(parsed, Page)' \/ Page' # Page
    BY <1>1, ToWriteStays DEF Next, ToWrite
  <2> QED
    BY <1>1, <2>1, <2>2, <2>3 DEF RowInv
<1>7. ASSUME NEW t \in Title, NEW i \in 1..Len(raw'), Fetched(i, t)'
      PROVE  /\ \E k \in 1..Len(raw') : Fetched(k, t)' /\ raw'[k].version = blob'[t]
             /\ (\A k \in 1..Len(raw') : i < k => ~Fetched(k, t)') => blob'[t] = raw'[i].version
  <2>1. \A k, u : Fetched(k, u)' <=> \/ Fetched(k, u)
                                     \/ k = Len(raw) + 1 /\ m.title = u /\ m.version # Absent
    BY <1>2, <1>3, FetchedStep
  <2>2. CASE m.title = t /\ m.version # Absent
    <3>0. PICK n \in Nat : n = Len(raw) + 1
      BY <1>3
    <3>1. n \in 1..Len(raw') /\ (i = n \/ i < n)
      BY <1>3, <3>0
    <3>2. raw'[n] = m /\ Fetched(n, t)'
      BY <1>3, <2>1, <2>2, <3>0
    <3>3. blob'[t] = m.version
      BY <1>2, <1>3, <2>2 DEF TypeInv
    <3> QED
      BY <3>1, <3>2, <3>3
  <2>3. CASE ~(m.title = t /\ m.version # Absent)
    <3>1. \A k : Fetched(k, t)' <=> Fetched(k, t)
      BY <2>1, <2>3
    <3>2. Fetched(i, t) /\ i \in 1..Len(raw) /\ blob'[t] = blob[t]
      BY <1>2, <1>7, <2>3, <3>1 DEF Fetched, TypeInv
    <3>3. /\ \E k \in 1..Len(raw) : Fetched(k, t) /\ raw[k].version = blob[t]
          /\ (\A k \in 1..Len(raw) : i < k => ~Fetched(k, t)) => blob[t] = raw[i].version
      BY <3>2 DEF BlobInv
    <3>4. \A k \in 1..Len(raw) : k \in 1..Len(raw') /\ raw'[k] = raw[k]
      BY <1>3
    <3> QED
      BY <3>1, <3>2, <3>3, <3>4
  <2> QED
    BY <2>2, <2>3
<1>8. BlobInv'
  BY <1>7 DEF BlobInv
<1> QED
  BY <1>5, <1>6, <1>8

\* No other step touches the log and the blobs, nor the chunk rows but for two.
LEMMA LogStays ==
  ASSUME [Next]_vars, ~CrawlerStep
  PROVE  /\ UNCHANGED <<raw, blob>>
         /\ ~CommitWrite /\ ~DeleteRows => UNCHANGED <<docHash, chunkRows>>
BY DEF Next, ParserStep, Poll, Handle, HandleUnchanged, HandleUnparseable, BeginWrite,
       CommitWrite, BeginDelete, DeleteRows, Deliver, DeliverLetter, Flush, Commit, Fault, HandleFails,
       DeliveryFails, LetterFails, FlushTimesOut, CommitLost, Crash, crawler, store, vars

\* What is queued are messages, and what is announced chunks.
LEMMA QueueTypes ==
  ASSUME ParserInv, [Next]_vars
  PROVE  /\ out' \in Seq(Message)
         /\ announced' \in [Title -> [Seqs -> Hash \cup {Absent}]]
<1> USE DEF ParserInv
<1>1. out \in Seq(Message) /\ announced \in [Title -> [Seqs -> Hash \cup {Absent}]]
  BY DEF TypeInv
<1>2. CASE Deliver \/ DeliveryFails
  <2>1. out # <<>> /\ out' = Tail(out) /\ Head(out) \in Message /\ out' \in Seq(Message)
    BY <1>1, <1>2, HeadTailProperties DEF Deliver, DeliveryFails
  <2>2. PICK m \in Message : m = Head(out)
    BY <2>1
  <2>3. /\ m.doc \in Title /\ m.seq \in Seqs /\ m.hash \in Hash \cup {Absent}
        /\ \/ announced' = announced
           \/ announced' = [announced EXCEPT ![m.doc][m.seq] = m.hash]
    BY <1>2, <2>2 DEF Deliver, DeliveryFails, Message
  <2>4. ASSUME NEW d \in Title, NEW s \in Seqs, NEW h \in Hash \cup {Absent}
        PROVE  [announced EXCEPT ![d][s] = h] \in [Title -> [Seqs -> Hash \cup {Absent}]]
    <3>1. [announced[d] EXCEPT ![s] = h] \in [Seqs -> Hash \cup {Absent}]
      BY <1>1
    <3> QED
      BY <1>1, <3>1
  <2>5. announced' \in [Title -> [Seqs -> Hash \cup {Absent}]]
    BY <1>1, <2>3, <2>4
  <2> QED
    BY <2>1, <2>5
<1>3. CASE BeginWrite
  <2>1. /\ Target \in Title /\ blob[Page] \in Version
        /\ ChunksOf[blob[Page]] \in Seq(Hash) /\ Len(ChunksOf[blob[Page]]) \in Nat
        /\ Len(chunkRows[Target]) \in Nat /\ Len(chunkRows[Target]) =< MaxChunks
    BY <1>3, RecordInHand, ChunksAssumption DEF BeginWrite, RowInv, TypeInv
  <2>2. /\ Tombstones(Target, StaleTail(ChunksOf[blob[Page]])) \in Seq(Message)
        /\ Upserts(Target, ChunksOf[blob[Page]]) \in Seq(Message)
    BY <2>1, MessageTypes DEF StaleTail
  <2>3. out' = out \o Tombstones(Target, StaleTail(ChunksOf[blob[Page]]))
                   \o Upserts(Target, ChunksOf[blob[Page]]) /\ announced' = announced
    BY <1>3 DEF BeginWrite
  <2> QED
    BY <1>1, <2>2, <2>3, ConcatProperties
<1>4. CASE BeginDelete
  <2>1. /\ Page \in Title
        /\ Len(chunkRows[Page]) \in Nat /\ Len(chunkRows[Page]) =< MaxChunks
    BY <1>4, RecordInHand DEF BeginDelete, RowInv, TypeInv
  <2>2. Tombstones(Page, SeqsFrom(1, Len(chunkRows[Page]))) \in Seq(Message)
    BY <2>1, MessageTypes
  <2>3. /\ out' = out \o Tombstones(Page, SeqsFrom(1, Len(chunkRows[Page])))
        /\ announced' = announced
    BY <1>4 DEF BeginDelete
  <2> QED
    BY <1>1, <2>2, <2>3, ConcatProperties
<1>5. CASE ~(Deliver \/ DeliveryFails \/ BeginWrite \/ BeginDelete)
  <2>1. out' \in {out, <<>>} /\ announced' = announced
    BY <1>5 DEF Next, ParserStep, Poll, Handle, HandleUnchanged, HandleUnparseable,
       CommitWrite, DeleteRows, DeliverLetter, Flush, Commit, Fault, HandleFails, LetterFails,
       FlushTimesOut, CommitLost, Crash, CrawlerStep, PageGone, PageFetched, vars
  <2>2. <<>> \in Seq(Message)
    OBVIOUS
  <2> QED
    BY <1>1, <2>1, <2>2
<1> QED
  BY <1>2, <1>3, <1>4, <1>5

\* Where the loop goes, and what the transaction is to write.
LEMMA LoopKeeps ==
  ASSUME ParserInv, [Next]_vars, ~CrawlerStep
  PROVE  /\ rawCommitted' \in Nat /\ rawPosition' \in Nat /\ cursor' \in Nat \ {0}
         /\ parsed' \in Version \cup {Absent} /\ faults' \in Nat /\ pc' \in Steps
         /\ LoopInv'
         /\ pc' = "write" => /\ Incoming' # Absent /\ parsed' \in Version
                             /\ Chars[parsed'] >= MinBody /\ ToWrite(parsed, Page)'
         /\ pc' = "delete" => Incoming' = Absent
<1> DEFINE Goal == /\ rawCommitted' \in Nat /\ rawPosition' \in Nat /\ cursor' \in Nat \ {0}
                   /\ parsed' \in Version \cup {Absent} /\ faults' \in Nat /\ pc' \in Steps
                   /\ LoopInv'
                   /\ pc' = "write" => /\ Incoming' # Absent /\ parsed' \in Version
                                       /\ Chars[parsed'] >= MinBody /\ ToWrite(parsed, Page)'
                   /\ pc' = "delete" => Incoming' = Absent
<1> USE DEF ParserInv, TypeInv, LoopInv, Steps, offsets, Incoming
<1>0. raw' = raw
  BY LogStays
<1>1. CASE UNCHANGED vars \/ Deliver \/ DeliveryFails \/ DeliverLetter \/ LetterFails
  BY <1>0, <1>1 DEF vars, Deliver, DeliveryFails, DeliverLetter, LetterFails, RowInv, ToWrite,
     Fetched, Page
<1>2. CASE Poll
  BY <1>0, <1>2 DEF Poll
<1>3. CASE HandleUnchanged \/ HandleUnparseable
  BY <1>0, <1>3 DEF HandleUnchanged, HandleUnparseable, SendDeadLetter, Handling, NextRecord
<1>4. CASE BeginWrite
  <2>1. blob[Page] \in Version /\ ToWrite(blob[Page], Page)
    BY <1>4, RecordInHand DEF BeginWrite
  <2>2. Page' = Page /\ parsed' = blob[Page] /\ ToWrite(parsed, Page)'
    BY <1>0, <1>4, <2>1 DEF BeginWrite, Page, ToWrite, Fetched
  <2> QED
    BY <1>0, <1>4, <2>1, <2>2 DEF BeginWrite, Handling
<1>5. CASE BeginDelete
  BY <1>0, <1>5 DEF BeginDelete, Handling
<1>6. CASE CommitWrite \/ DeleteRows \/ HandleFails
  BY <1>0, <1>6 DEF CommitWrite, DeleteRows, HandleFails, SendDeadLetter, Handling, NextRecord
<1>7. CASE Flush \/ FlushTimesOut
  BY <1>0, <1>7 DEF Flush, FlushTimesOut
<1>8. CASE Commit \/ CommitLost \/ Crash
  BY <1>0, <1>8 DEF Commit, CommitLost, Crash
<1> QED
  BY <1>1, <1>2, <1>3, <1>4, <1>5, <1>6, <1>7, <1>8 DEF Next, ParserStep, Handle, Fault

\* What the two steps that write the document leave.
LEMMA RowsStep ==
  ASSUME ParserInv, [Next]_vars
  PROVE  \/ UNCHANGED <<docHash, chunkRows>>
         \/ /\ CommitWrite /\ Target \in Title /\ Canonical[Target] = Target
            /\ Incoming \in Version /\ parsed \in Version
            /\ docHash' = [docHash EXCEPT ![Target] = Incoming]
            /\ chunkRows' = [chunkRows EXCEPT ![Target] = ChunksOf[parsed]]
         \/ /\ DeleteRows /\ Page \in Title /\ Incoming = Absent
            /\ docHash' = [docHash EXCEPT ![Page] = Absent]
            /\ chunkRows' = [chunkRows EXCEPT ![Page] = <<>>]
<1>1. CASE CommitWrite
  BY <1>1, RecordInHand DEF CommitWrite, RowsAfter, ParserInv, RowInv
<1>2. CASE DeleteRows
  BY <1>2, RecordInHand DEF DeleteRows, ParserInv, RowInv
<1>3. CASE CrawlerStep
  BY <1>3 DEF CrawlerStep, PageGone, PageFetched, store
<1> QED
  BY <1>1, <1>2, <1>3, LogStays

\* The two leave their document whole.
LEMMA WrittenWhole ==
  ASSUME ParserInv, NEW t \in Title, \/ CommitWrite /\ t = Target
                                     \/ DeleteRows /\ t = Page
  PROVE  Whole(t)'
<1>1. CASE CommitWrite /\ t = Target
  <2>1. /\ pc = "write" /\ raw' = raw /\ Incoming \in Version /\ Incoming # Absent
        /\ docHash'[t] = Incoming /\ chunkRows'[t] = ChunksOf[parsed]
    BY <1>1, RecordInHand DEF CommitWrite, RowsAfter, ParserInv, TypeInv, RowInv, crawler
  <2>2. PICK k \in 1..Len(raw) : Fetched(k, Page) /\ raw[k].version = parsed
    BY <2>1 DEF ParserInv, RowInv, ToWrite
  <2>3. About(k) = t /\ Chars[parsed] >= MinBody
    BY <1>1, <2>1, <2>2 DEF Fetched, About, Target, ParserInv, RowInv
  <2>4. About(k)' = t
    BY <2>1, <2>3 DEF About
  <2>5. /\ k \in 1..Len(raw') /\ raw'[k].version # Absent /\ raw'[k].version = parsed
    BY <2>1, <2>2 DEF Fetched
  <2> QED
    BY <2>1, <2>3, <2>4, <2>5 DEF Whole
<1>2. CASE DeleteRows /\ t = Page
  BY <1>2, RecordInHand DEF DeleteRows, ParserInv, TypeInv, Whole
<1> QED
  BY <1>1, <1>2

LEMMA DocumentStep ==
  ASSUME ParserInv, [Next]_vars, NEW t \in Title
  PROVE  Whole(t)' \/ UNCHANGED <<docHash[t], chunkRows[t]>>
BY RowsStep, WrittenWhole DEF ParserInv, TypeInv

LEMMA ParserKeeps == ParserInv /\ [Next]_vars => ParserInv'
<1> SUFFICES ASSUME ParserInv, [Next]_vars, ~CrawlerStep PROVE ParserInv'
  BY CrawlerKeeps
<1>1. UNCHANGED <<raw, blob>>
  BY LogStays
<1>2. BlobInv'
  BY <1>1 DEF ParserInv, BlobInv, Fetched
<1>3. /\ docHash' \in [Title -> Version \cup {Absent}] /\ chunkRows' \in [Title -> Seq(Hash)]
      /\ \A t \in Title : /\ Len(chunkRows'[t]) =< MaxChunks
                          /\ chunkRows'[t] # <<>> => Canonical[t] = t /\ Whole(t)'
  <2>1. \A v \in Version : ChunksOf[v] \in Seq(Hash) /\ Len(ChunksOf[v]) =< MaxChunks
    BY ChunksAssumption
  <2>2. <<>> \in Seq(Hash) /\ Len(<<>>) =< MaxChunks
    BY ChunksAssumption
  <2>3. /\ docHash' \in [Title -> Version \cup {Absent}] /\ chunkRows' \in [Title -> Seq(Hash)]
        /\ \A t \in Title : /\ Len(chunkRows'[t]) =< MaxChunks
                            /\ chunkRows'[t] # <<>> => Canonical[t] = t
    <3>1. \A t \in Title : Len(chunkRows[t]) =< MaxChunks /\ (chunkRows[t] # <<>> => Canonical[t] = t)
      BY DEF ParserInv, RowInv
    <3>2. /\ docHash \in [Title -> Version \cup {Absent}] /\ chunkRows \in [Title -> Seq(Hash)]
      BY DEF ParserInv, TypeInv
    <3> QED
      BY <2>1, <2>2, <3>1, <3>2, RowsStep
  <2>4. ASSUME NEW t \in Title, chunkRows'[t] # <<>> PROVE Whole(t)'
    <3>1. CASE UNCHANGED <<docHash[t], chunkRows[t]>>
      BY <2>4, <3>1, WholeStays DEF ParserInv, RowInv
    <3> QED
      BY <3>1, DocumentStep
  <2> QED
    BY <2>3, <2>4
<1> QED
  BY <1>1, <1>2, <1>3, LoopKeeps, QueueTypes DEF ParserInv, TypeInv, RowInv

LEMMA ParserInvariant == Spec => []ParserInv
BY ParserInit, ParserKeeps, PTL DEF Spec

\* parser._write: whatever changes a document leaves it with all the chunks of one
\* fetch of its page (none, if that is headings alone), or with neither row nor chunks.
THEOREM DocumentsStayWhole == Spec => DocumentIsWhole
<1>1. ParserInv /\ [Next]_vars
        => [\A t \in Title : Whole(t)' \/ UNCHANGED <<docHash[t], chunkRows[t]>>]_vars
  BY DocumentStep
<1> QED
  BY <1>1, ParserInvariant, PTL DEF Spec, DocumentIsWhole

-------------------------------------------------------------------------------
(* What is stored.  All records before the one in hand have been handled,  *)
(* since a consumer resumes where it has committed.                        *)

Passed == IF pc = "poll" THEN rawCommitted ELSE cursor - 1

Stored(i) == \E k \in i..Len(raw) : About(k) = About(i) /\ docHash[About(i)] = raw[k].version

StoredInv == \A i \in (1..Passed) \ DeadLettered : Stored(i) /\ Whole(About(i))

LEMMA PassedBounds ==
  ASSUME ParserInv
  PROVE  Passed \in Nat /\ rawCommitted =< Passed /\ Passed =< Len(raw)
BY DEF ParserInv, TypeInv, LoopInv, Passed

\* A step passes at most the record in hand.
LEMMA PassedStep ==
  ASSUME ParserInv, [Next]_vars
  PROVE  /\ DeadLettered \subseteq DeadLettered'
         /\ \A i \in 1..Passed' :
              \/ i \in 1..Passed
              \/ /\ i = cursor /\ cursor \in 1..Len(raw)
                 /\ \/ CommitWrite \/ DeleteRows \/ HandleUnchanged
                    \/ cursor \in DeadLettered'
<1> USE DEF ParserInv, TypeInv, LoopInv, Passed, offsets, deadLetters, DeadLettered
<1>1. CASE UNCHANGED vars \/ Deliver \/ DeliveryFails \/ DeliverLetter \/ LetterFails \/ CrawlerStep
  BY <1>1 DEF vars, Deliver, DeliveryFails, DeliverLetter, LetterFails, CrawlerStep, PageGone,
     PageFetched
<1>2. CASE Poll
  BY <1>2 DEF Poll
<1>3. CASE HandleUnchanged \/ HandleUnparseable
  <2>1. cursor \in 1..Len(raw)
    BY <1>3, RecordInHand DEF HandleUnchanged, HandleUnparseable
  <2> QED
    BY <1>3, <2>1 DEF HandleUnchanged, HandleUnparseable, SendDeadLetter, Handling, NextRecord
<1>4. CASE BeginWrite \/ BeginDelete
  BY <1>4 DEF BeginWrite, BeginDelete, Handling
<1>5. CASE CommitWrite \/ DeleteRows \/ HandleFails
  <2>1. cursor \in 1..Len(raw)
    BY <1>5, RecordInHand DEF CommitWrite, DeleteRows, HandleFails
  <2> QED
    BY <1>5, <2>1 DEF CommitWrite, DeleteRows, HandleFails, SendDeadLetter, Handling, NextRecord
<1>6. CASE Flush \/ FlushTimesOut \/ Commit \/ CommitLost \/ Crash
  BY <1>6 DEF Flush, FlushTimesOut, Commit, CommitLost, Crash
<1> QED
  BY <1>1, <1>2, <1>3, <1>4, <1>5, <1>6 DEF Next, ParserStep, Handle, Fault

LEMMA StoredStep == ParserInv /\ StoredInv /\ [Next]_vars => StoredInv'
<1> SUFFICES ASSUME ParserInv, StoredInv, [Next]_vars,
                    NEW i \in (1..Passed') \ DeadLettered'
             PROVE  Stored(i)' /\ Whole(About(i))'
  BY DEF StoredInv
<1>1. i \in 1..Len(raw) /\ Len(raw) =< Len(raw') /\ Len(raw) \in Nat /\ Len(raw') \in Nat
  <2>1. Len(raw) \in Nat /\ Len(raw') \in Nat /\ Len(raw) =< Len(raw')
    BY RawStep DEF ParserInv, TypeInv
  <2> QED
    BY <2>1, PassedStep, PassedBounds
<1>2. \A k \in 1..Len(raw) : k \in 1..Len(raw') /\ raw'[k] = raw[k] /\ About(k)' = About(k)
  BY RawStep DEF About
\* The record in hand has made the row of its document what it says.
<1>3. ASSUME NEW c \in 1..Len(raw), c = cursor, NEW t, t = About(c)
      PROVE  (CommitWrite \/ DeleteRows \/ HandleUnchanged) =>
               docHash'[t] = raw[c].version /\ Whole(t)'
  <2>1. CASE CommitWrite
    <3>1. /\ t = Target /\ Target \in Title
          /\ docHash' = [docHash EXCEPT ![Target] = Incoming]
      BY <1>3, <2>1, RecordInHand
      DEF CommitWrite, RowsAfter, ParserInv, RowInv, About, Target, Page, Incoming
    <3> QED
      BY <1>3, <2>1, <3>1, WrittenWhole DEF ParserInv, TypeInv, Incoming
  <2>2. CASE DeleteRows
    <3>1. /\ t = Page /\ Page \in Title /\ Incoming = Absent
          /\ docHash' = [docHash EXCEPT ![Page] = Absent]
      BY <1>3, <2>2, RecordInHand DEF DeleteRows, ParserInv, RowInv, About, Page, Incoming
    <3> QED
      BY <1>3, <2>2, <3>1, WrittenWhole DEF ParserInv, TypeInv, Incoming
  <2>3. CASE HandleUnchanged
    <3>1. /\ Page \in Title /\ Incoming # Absent /\ chunkRows[Page] # <<>>
          /\ docHash[Page] = Incoming /\ UNCHANGED <<docHash, chunkRows>>
      BY <2>3, RecordInHand DEF HandleUnchanged, Unchanged, store
    <3>2. Canonical[Page] = Page /\ Whole(Page)
      BY <3>1 DEF ParserInv, RowInv
    <3>3. t = Page
      BY <1>3, <3>1, <3>2 DEF About, Page, Incoming
    <3> QED
      BY <1>3, <3>1, <3>2, <3>3, WholeStays DEF Incoming
  <2> QED
    BY <2>1, <2>2, <2>3
<1>4. CASE i \in 1..Passed
  <2>0. PICK t : t = About(i)
    OBVIOUS
  <2>1. PICK k \in i..Len(raw) : About(k) = t /\ docHash[t] = raw[k].version
    BY <1>4, <2>0, PassedStep DEF StoredInv, Stored
  <2>5. t \in Title /\ Whole(t) /\ About(i)' = t
    <3>1. raw[i] \in Raw
      BY <1>1 DEF ParserInv, TypeInv
    <3> QED
      BY <1>1, <1>2, <1>4, <2>0, <3>1, PassedStep, CanonicalAssumption DEF About, Raw, StoredInv
  <2>2. k \in 1..Len(raw) /\ k \in i..Len(raw')
    BY <1>1
  <2>3. CASE UNCHANGED <<docHash[t], chunkRows[t]>>
    <3>1. docHash'[About(i)'] = docHash[t]
      BY <1>1, <1>2, <2>0, <2>3
    <3>2. Whole(t)'
      BY <2>3, <2>5, WholeStays
    <3>3. Stored(i)'
      BY <1>1, <1>2, <2>0, <2>1, <2>2, <3>1 DEF Stored
    <3> QED
      BY <2>5, <3>2, <3>3 DEF Whole
  \* Another record about the same document has been handled: a later one.
  <2>4. CASE ~UNCHANGED <<docHash[t], chunkRows[t]>>
    <3>1. /\ CommitWrite \/ DeleteRows
          /\ cursor \in 1..Len(raw) /\ t = About(cursor) /\ i =< cursor
      <4>1. t \in Title
        BY <2>5
      <4>2. CASE UNCHANGED <<docHash, chunkRows>>
        BY <2>4, <4>2
      <4>3. CASE CommitWrite /\ docHash' = [docHash EXCEPT ![Target] = Incoming]
                 /\ chunkRows' = [chunkRows EXCEPT ![Target] = ChunksOf[parsed]]
        <5>1. t = Target /\ pc = "write" /\ cursor \in 1..Len(raw) /\ Incoming # Absent
          BY <2>4, <4>1, <4>3, RecordInHand DEF CommitWrite, ParserInv, TypeInv, RowInv
        <5> QED
          BY <1>4, <4>3, <5>1 DEF About, Target, Page, Incoming, Passed, ParserInv, TypeInv
      <4>4. CASE DeleteRows /\ Incoming = Absent /\ docHash' = [docHash EXCEPT ![Page] = Absent]
                 /\ chunkRows' = [chunkRows EXCEPT ![Page] = <<>>]
        <5>1. t = Page /\ pc = "delete" /\ cursor \in 1..Len(raw)
          BY <2>4, <4>1, <4>4, RecordInHand DEF DeleteRows, ParserInv, TypeInv
        <5> QED
          BY <1>4, <4>4, <5>1 DEF About, Page, Incoming, Passed, ParserInv, TypeInv
      <4> QED
        BY <4>2, <4>3, <4>4, RowsStep
    <3>2. PICK c \in 1..Len(raw) : c = cursor
      BY <3>1
    <3>3. docHash'[t] = raw[c].version /\ Whole(t)'
      BY <1>3, <3>1, <3>2
    <3>4. c \in i..Len(raw') /\ About(c)' = t /\ About(i)' = t /\ raw'[c] = raw[c]
      <4>1. c \in i..Len(raw')
        BY <1>1, <3>1, <3>2
      <4>2. About(c) = t
        BY <3>1, <3>2
      <4>3. About(c)' = About(c) /\ About(i)' = About(i) /\ raw'[c] = raw[c]
        BY <1>1, <1>2
      <4> QED
        BY <2>0, <4>1, <4>2, <4>3
    <3>5. Stored(i)'
      BY <3>3, <3>4 DEF Stored
    <3> QED
      BY <2>5, <3>3, <3>5 DEF Whole
  <2> QED
    BY <2>3, <2>4
<1>5. CASE i \notin 1..Passed
  <2>1. i = cursor /\ (CommitWrite \/ DeleteRows \/ HandleUnchanged)
    BY <1>5, PassedStep
  <2>2. i \in i..Len(raw')
    BY <1>1
  <2>3. PICK t : t = About(i)
    OBVIOUS
  <2>4. docHash'[t] = raw[i].version /\ Whole(t)' /\ About(i)' = t /\ raw'[i] = raw[i]
    BY <1>1, <1>2, <1>3, <2>1, <2>3
  <2>5. Stored(i)'
    BY <2>2, <2>4 DEF Stored
  <2> QED
    BY <2>4, <2>5 DEF Whole
<1> QED
  BY <1>4, <1>5

\* parser.main commits after the batch: a committed page is stored whole, as its
\* message or a later one about the same document left it, or a dead letter was sent.
THEOREM CommittedPagesAreStored == Spec => []CommittedIsStored
<1>1. Init => StoredInv
  BY DEF Init, StoredInv, Passed
<1>2. ParserInv /\ StoredInv => CommittedIsStored
  BY PassedBounds DEF ParserInv, TypeInv, StoredInv, Stored, CommittedIsStored
<1> QED
  BY <1>1, <1>2, ParserInvariant, StoredStep, PTL DEF Spec

-------------------------------------------------------------------------------
(* chunks.ready.                                                           *)

\* h is the last word of the queue q about chunk s of t; or q has none.
Says(q, t, s, h) == \E i \in 1..Len(q) : /\ q[i] = [doc |-> t, seq |-> s, hash |-> h]
                                         /\ \A j \in 1..Len(q) : i < j => q[j].doc # t \/ q[j].seq # s
Silent(q, t, s)  == \A i \in 1..Len(q) : q[i].doc # t \/ q[i].seq # s

\* What a consumer will have heard when the queue is delivered.
Told(t, s, h) == Says(out, t, s, h) \/ (Silent(out, t, s) /\ announced[t][s] = h)

RowOf(rows, s) == IF s =< Len(rows) THEN rows[s] ELSE Absent

\* The messages of the record in hand are ahead of its transaction.
RowsToBe(t) == IF pc = "write" /\ t = Target THEN ChunksOf[parsed]
               ELSE IF pc = "delete" /\ t = Page THEN <<>> ELSE chunkRows[t]

ReadyInv == ~torn => \A t \in Title, s \in Seqs : Told(t, s, RowOf(RowsToBe(t), s))

LEMMA SaysConcat ==
  ASSUME NEW q \in Seq(Message), NEW r \in Seq(Message), NEW t, NEW s, NEW h
  PROVE  /\ Says(r, t, s, h) => Says(q \o r, t, s, h)
         /\ Silent(r, t, s) /\ Says(q, t, s, h) => Says(q \o r, t, s, h)
         /\ Silent(r, t, s) /\ Silent(q, t, s) => Silent(q \o r, t, s)
<1> DEFINE l == Len(q)
           n == Len(r)
           w == q \o r
<1>1. /\ l \in Nat /\ n \in Nat /\ Len(w) = l + n
      /\ \A i \in 1..l : w[i] = q[i]
      /\ \A i \in 1..n : w[l + i] = r[i]
  OBVIOUS
<1> HIDE DEF l, n, w
<1>2. /\ \A i \in 1..l : i \in 1..(l + n)
      /\ \A i \in 1..n : l + i \in 1..(l + n) /\ l + i \in Nat
      /\ \A j \in 1..(l + n) : j \in 1..l \/ (j - l \in 1..n /\ l + (j - l) = j)
      /\ \A i \in 1..n, j \in 1..(l + n) : l + i < j => i < j - l /\ j \notin 1..l
  BY <1>1
<1>3. \A j \in 1..Len(w) : \/ j \in 1..l /\ w[j] = q[j]
                           \/ j - l \in 1..n /\ w[j] = r[j - l]
  <2> SUFFICES ASSUME NEW j \in 1..Len(w), j \notin 1..l
               PROVE  j - l \in 1..n /\ w[j] = r[j - l]
    BY <1>1
  <2>1. j - l \in 1..n /\ l + (j - l) = j
    BY <1>1, <1>2
  <2> QED
    BY <1>1, <2>1
<1>4. ASSUME Says(r, t, s, h) PROVE Says(w, t, s, h)
  <2>1. PICK i \in 1..n : /\ r[i] = [doc |-> t, seq |-> s, hash |-> h]
                          /\ \A j \in 1..n : i < j => r[j].doc # t \/ r[j].seq # s
    BY <1>4 DEF Says, n
  <2>2. PICK k \in 1..Len(w) : k = l + i
    BY <1>1, <1>2
  <2>3. w[k] = [doc |-> t, seq |-> s, hash |-> h]
    BY <1>1, <2>1, <2>2
  <2>4. ASSUME NEW j \in 1..Len(w), k < j PROVE w[j].doc # t \/ w[j].seq # s
    <3>1. i < j - l /\ j \notin 1..l
      BY <1>1, <1>2, <2>2, <2>4
    <3>2. j - l \in 1..n /\ w[j] = r[j - l]
      BY <1>3, <3>1
    <3> QED
      BY <2>1, <3>1, <3>2
  <2> QED
    BY <2>3, <2>4 DEF Says
<1>5. ASSUME Silent(r, t, s), Says(q, t, s, h) PROVE Says(w, t, s, h)
  <2>1. PICK i \in 1..l : /\ q[i] = [doc |-> t, seq |-> s, hash |-> h]
                          /\ \A j \in 1..l : i < j => q[j].doc # t \/ q[j].seq # s
    BY <1>5 DEF Says, l
  <2>2. i \in 1..Len(w) /\ w[i] = [doc |-> t, seq |-> s, hash |-> h]
    BY <1>1, <1>2, <2>1
  <2>3. ASSUME NEW j \in 1..Len(w), i < j PROVE w[j].doc # t \/ w[j].seq # s
    BY <1>3, <1>5, <2>1, <2>3 DEF Silent, n
  <2> QED
    BY <2>2, <2>3 DEF Says
<1>6. ASSUME Silent(r, t, s), Silent(q, t, s) PROVE Silent(w, t, s)
  BY <1>3, <1>6 DEF Silent, l, n
<1> QED
  BY <1>4, <1>5, <1>6 DEF w

\* Tombstones for n..m say that these chunks are gone, and nothing else.
LEMMA TombstonesSay ==
  ASSUME NEW t \in Title, NEW n \in Nat, NEW m \in Nat, n >= 1,
         NEW u \in Title, NEW s \in Seqs
  PROVE  /\ u = t /\ s \in n..m => Says(Tombstones(t, SeqsFrom(n, m)), u, s, Absent)
         /\ ~(u = t /\ s \in n..m) => Silent(Tombstones(t, SeqsFrom(n, m)), u, s)
<1> DEFINE l == IF n =< m THEN m - n + 1 ELSE 0
           q == Tombstones(t, SeqsFrom(n, m))
<1>1. l \in Nat /\ 1..(m - n + 1) = 1..l /\ s \in Nat
  BY ChunksAssumption DEF Seqs
<1>2. /\ Len(q) = l
      /\ \A i \in 1..l : q[i] = [doc |-> t, seq |-> n + i - 1, hash |-> Absent]
  <2>1. SeqsFrom(n, m) = [i \in 1..l |-> n + i - 1]
    BY <1>1 DEF SeqsFrom
  <2> HIDE DEF l
  <2> DEFINE z == SeqsFrom(n, m)
  <2>2. Len(z) = l /\ \A i \in 1..l : z[i] = n + i - 1
    BY <1>1, <2>1, LenProperties
  <2> HIDE DEF z
  <2>3. Tombstones(t, z) \in Seq({[doc |-> t, seq |-> z[i], hash |-> Absent] : i \in 1..l})
    BY <1>1, <2>2 DEF Tombstones
  <2>4. /\ DOMAIN Tombstones(t, z) = 1..l
        /\ \A i \in 1..l : Tombstones(t, z)[i] = [doc |-> t, seq |-> z[i], hash |-> Absent]
    BY <2>2 DEF Tombstones
  <2>5. Len(Tombstones(t, z)) = l
    BY <1>1, <2>3, <2>4, LenProperties
  <2> QED
    BY <2>2, <2>4, <2>5 DEF z
<1> HIDE DEF q
<1>3. CASE u = t /\ s \in n..m
  <2>1. PICK i \in 1..l : n + i - 1 = s
    <3>1. s - n + 1 \in 1..l /\ n + (s - n + 1) - 1 = s
      BY <1>1, <1>3
    <3> QED
      BY <3>1
  <2>2. ASSUME NEW j \in 1..l, i < j PROVE q[j].seq # s
    <3>1. n + j - 1 # s
      BY <1>1, <2>1, <2>2
    <3> HIDE DEF l
    <3> QED
      BY <1>2, <3>1
  <2> HIDE DEF l
  <2> QED
    BY <1>2, <1>3, <2>1, <2>2 DEF Says, q
<1>4. CASE ~(u = t /\ s \in n..m)
  <2>1. \A i \in 1..l : n + i - 1 \in n..m
    BY <1>1
  <2> HIDE DEF l
  <2> QED
    BY <1>2, <1>4, <2>1 DEF Silent, q
<1> QED
  BY <1>3, <1>4 DEF q

LEMMA UpsertsSay ==
  ASSUME NEW t \in Title, NEW c \in Seq(Hash), NEW u \in Title, NEW s \in Seqs
  PROVE  /\ u = t /\ s \in 1..Len(c) => Says(Upserts(t, c), u, s, c[s])
         /\ ~(u = t /\ s \in 1..Len(c)) => Silent(Upserts(t, c), u, s)
<1> DEFINE l == Len(c)
           q == Upserts(t, c)
<1>1. l \in Nat
  OBVIOUS
<1> HIDE DEF l
<1>2. /\ Len(q) = l
      /\ \A i \in 1..l : /\ q[i] = [doc |-> t, seq |-> i, hash |-> c[i]]
                         /\ q[i].doc = t /\ q[i].seq = i
  <2>1. q \in Seq({[doc |-> t, seq |-> i, hash |-> c[i]] : i \in 1..l})
    BY <1>1 DEF Upserts, l
  <2>2. DOMAIN q = 1..l /\ \A i \in 1..l : q[i] = [doc |-> t, seq |-> i, hash |-> c[i]]
    BY DEF Upserts, l
  <2> QED
    BY <1>1, <2>1, <2>2, LenProperties
<1> HIDE DEF q
<1>3. CASE u = t /\ s \in 1..l
  <2>1. \A j \in 1..l : s < j => q[j].seq # s
    <3>1. \A j \in 1..l : s < j => j # s
      BY <1>1
    <3> QED
      BY <1>2, <3>1
  <2>2. s \in 1..l /\ q[s] = [doc |-> u, seq |-> s, hash |-> c[s]]
    BY <1>2, <1>3
  <2> QED
    BY <1>2, <1>3, <2>1, <2>2 DEF Says, l, q
<1>4. CASE ~(u = t /\ s \in 1..l)
  BY <1>2, <1>4 DEF Silent, l, q
<1> QED
  BY <1>3, <1>4

\* The messages of the record in hand make the last word on each chunk what its
\* transaction will make the row.
LEMMA RecordTells ==
  ASSUME ParserInv, ReadyInv, ~torn, BeginWrite \/ BeginDelete,
         NEW u \in Title, NEW s \in Seqs
  PROVE  Told(u, s, RowOf(RowsToBe(u), s))'
<1> USE DEF ParserInv
<1>1. /\ pc = "handle" /\ chunkRows' = chunkRows /\ announced' = announced
      /\ RowsToBe(u) = chunkRows[u]
      /\ Page' = Page /\ Target' = Target /\ Page \in Title /\ Target \in Title
      /\ Told(u, s, RowOf(chunkRows[u], s))
  <2>1. pc = "handle" /\ UNCHANGED <<raw, cursor, chunkRows, announced>>
    BY DEF BeginWrite, BeginDelete, Handling, crawler, store
  <2>2. RowsToBe(u) = chunkRows[u]
    BY <2>1 DEF RowsToBe
  <2> QED
    BY <2>1, <2>2, RecordInHand DEF BeginWrite, BeginDelete, ReadyInv, Page, Target
<1>2. out \in Seq(Message) /\ s \in Nat \ {0}
  BY ChunksAssumption DEF TypeInv, Seqs
<1>3. CASE BeginWrite
  <2> DEFINE chunks == ChunksOf[blob[Page]]
             n == Len(chunks)
             m == Len(chunkRows[Target])
             gone == Tombstones(Target, SeqsFrom(n + 1, m))
             new == Upserts(Target, chunks)
  <2>1. /\ out' = (out \o gone) \o new /\ pc' = "write" /\ parsed' = blob[Page]
    BY <1>3 DEF BeginWrite, StaleTail
  <2>2. /\ chunks \in Seq(Hash) /\ n \in Nat /\ m \in Nat /\ m =< MaxChunks
        /\ new \in Seq(Message) /\ gone \in Seq(Message) /\ out \o gone \in Seq(Message)
    <3>1. blob[Page] \in Version
      BY <1>3, RecordInHand DEF BeginWrite
    <3>2. chunks \in Seq(Hash) /\ n \in Nat /\ m \in Nat /\ m =< MaxChunks
      BY <1>1, <3>1, ChunksAssumption DEF TypeInv, RowInv
    <3>3. n + 1 \in Nat /\ n + 1 >= 1
      BY <3>2
    <3>4. new \in Seq(Message) /\ gone \in Seq(Message)
      BY <1>1, <3>1, <3>2, <3>3, MessageTypes
    <3> QED
      BY <1>2, <3>2, <3>4, ConcatProperties
  <2>3. RowsToBe(u)' = IF u = Target THEN chunks ELSE chunkRows[u]
    BY <1>1, <2>1 DEF RowsToBe
  <2>4. /\ u = Target /\ s \in 1..n => Says(new, u, s, chunks[s])
        /\ ~(u = Target /\ s \in 1..n) => Silent(new, u, s)
    BY <1>1, <2>2, UpsertsSay
  <2>5. /\ u = Target /\ s \in (n + 1)..m => Says(gone, u, s, Absent)
        /\ ~(u = Target /\ s \in (n + 1)..m) => Silent(gone, u, s)
    <3>1. n + 1 \in Nat /\ n + 1 >= 1
      BY <2>2
    <3> QED
      BY <1>1, <2>2, <3>1, TombstonesSay
  <2> HIDE DEF chunks, n, gone, new
  <2>6. CASE u = Target /\ s \in 1..n
    <3>1. RowOf(chunks, s) = chunks[s]
      BY <2>2, <2>6 DEF RowOf, n
    <3> QED
      BY <2>1, <2>2, <2>3, <2>4, <2>6, <3>1, SaysConcat DEF Told, RowOf
  <2>7. CASE u = Target /\ s \in (n + 1)..m
    <3>1. s \notin 1..n /\ ~(s =< n)
      BY <2>2, <2>7
    <3>2. Says(out \o gone, u, s, Absent) /\ Silent(new, u, s)
      BY <1>2, <2>2, <2>4, <2>5, <2>7, <3>1, SaysConcat
    <3>3. Says(out', u, s, Absent)
      BY <2>1, <2>2, <3>2, SaysConcat
    <3>4. RowOf(chunks, s) = Absent
      BY <3>1 DEF RowOf, n
    <3> QED
      BY <2>3, <2>7, <3>3, <3>4 DEF Told, RowOf
  <2>8. CASE ~(u = Target /\ s \in 1..n) /\ ~(u = Target /\ s \in (n + 1)..m)
    <3>1. Silent(new, u, s) /\ Silent(gone, u, s)
      BY <2>4, <2>5, <2>8
    <3>2. \A h : /\ Says(out, u, s, h) => Says(out', u, s, h)
                 /\ Silent(out, u, s) => Silent(out', u, s)
      BY <1>2, <2>1, <2>2, <3>1, SaysConcat
    <3>3. RowOf(chunkRows[u], s) = RowOf(IF u = Target THEN chunks ELSE chunkRows[u], s)
      <4>1. u = Target => ~(s =< n) /\ ~(s =< m)
        BY <1>2, <2>2, <2>8
      <4> QED
        BY <4>1 DEF RowOf, n
    <3> QED
      BY <1>1, <2>3, <3>2, <3>3 DEF Told, RowOf
  <2> QED
    BY <2>6, <2>7, <2>8
<1>4. CASE BeginDelete
  <2> DEFINE m == Len(chunkRows[Page])
             gone == Tombstones(Page, SeqsFrom(1, m))
  <2>1. out' = out \o gone /\ pc' = "delete"
    BY <1>4 DEF BeginDelete
  <2>2. m \in Nat /\ gone \in Seq(Message)
    BY <1>1, MessageTypes DEF TypeInv, RowInv
  <2>3. RowsToBe(u)' = IF u = Page THEN <<>> ELSE chunkRows[u]
    BY <1>1, <2>1 DEF RowsToBe
  <2>4. /\ u = Page /\ s \in 1..m => Says(gone, u, s, Absent)
        /\ ~(u = Page /\ s \in 1..m) => Silent(gone, u, s)
    BY <1>1, <2>2, TombstonesSay
  <2> HIDE DEF gone
  <2>5. RowOf(<<>>, s) = Absent
    BY <1>2 DEF RowOf
  <2>6. CASE u = Page /\ s \in 1..m
    BY <1>2, <2>1, <2>2, <2>3, <2>4, <2>5, <2>6, SaysConcat DEF Told, RowOf
  <2>7. CASE ~(u = Page /\ s \in 1..m)
    <3>1. \A h : /\ Says(out, u, s, h) => Says(out', u, s, h)
                 /\ Silent(out, u, s) => Silent(out', u, s)
      BY <1>2, <2>1, <2>2, <2>4, <2>7, SaysConcat
    <3>2. RowOf(chunkRows[u], s) = RowOf(IF u = Page THEN <<>> ELSE chunkRows[u], s)
      BY <1>2, <2>2, <2>5, <2>7 DEF RowOf
    <3> QED
      BY <1>1, <2>3, <3>1, <3>2 DEF Told, RowOf
  <2> QED
    BY <2>6, <2>7
<1> QED
  BY <1>3, <1>4

\* Delivery moves the first message of the queue to chunks.ready.
LEMMA DeliveryTells ==
  ASSUME ParserInv, Deliver, NEW t \in Title, NEW s \in Seqs, NEW h, Told(t, s, h)
  PROVE  Told(t, s, h)'
<1> DEFINE n == Len(out)
<1>1. /\ out \in Seq(Message) /\ out # <<>> /\ out' = Tail(out)
      /\ announced' = [announced EXCEPT ![Head(out).doc][Head(out).seq] = Head(out).hash]
      /\ announced \in [Title -> [Seqs -> Hash \cup {Absent}]]
  BY DEF Deliver, ParserInv, TypeInv
<1>2. PICK m \in Message : m = Head(out)
  BY <1>1, HeadTailProperties
<1>3. /\ n \in Nat \ {0} /\ Len(out') = n - 1 /\ out[1] = m
      /\ \A i \in 1..(n - 1) : out'[i] = out[i + 1]
  BY <1>1, <1>2, HeadTailProperties, EmptySeq, LenProperties
<1> HIDE DEF n
<1>4. /\ 1 \in 1..n
      /\ \A i \in 1..n : i = 1 \/ (i - 1 \in 1..(n - 1) /\ (i - 1) + 1 = i)
      /\ \A i \in 1..(n - 1) : i + 1 \in 1..n /\ 1 < i + 1 /\ i \in Nat
      /\ \A i, j \in 1..(n - 1) : i < j => i + 1 < j + 1
  BY <1>3
<1>5. /\ announced'[t][s] = IF m.doc = t /\ m.seq = s THEN m.hash ELSE announced[t][s]
  <2>1. announced' = [announced EXCEPT ![m.doc] = [announced[m.doc] EXCEPT ![m.seq] = m.hash]]
    BY <1>1, <1>2
  <2>2. announced[t] \in [Seqs -> Hash \cup {Absent}]
    BY <1>1
  <2> QED
    BY <1>1, <2>1, <2>2
<1>6. CASE Silent(out, t, s) /\ announced[t][s] = h
  BY <1>3, <1>4, <1>5, <1>6 DEF Silent, Told, n
<1>7. CASE Says(out, t, s, h)
  <2>1. PICK i \in 1..n : /\ out[i] = [doc |-> t, seq |-> s, hash |-> h]
                          /\ \A j \in 1..n : i < j => out[j].doc # t \/ out[j].seq # s
    BY <1>7 DEF Says, n
  <2>2. CASE i = 1
    <3>1. m.doc = t /\ m.seq = s /\ m.hash = h
      BY <1>3, <2>1, <2>2
    <3>2. Silent(out', t, s)
      BY <1>3, <1>4, <2>1, <2>2 DEF Silent
    <3> QED
      BY <1>5, <3>1, <3>2 DEF Told
  <2>3. CASE i # 1
    <3>1. PICK k \in 1..(n - 1) : k + 1 = i
      BY <1>4, <2>3
    <3>2. out'[k] = [doc |-> t, seq |-> s, hash |-> h]
      BY <1>3, <2>1, <3>1
    <3>3. \A j \in 1..(n - 1) : k < j => out'[j].doc # t \/ out'[j].seq # s
      BY <1>3, <1>4, <2>1, <3>1
    <3> QED
      BY <1>3, <3>2, <3>3 DEF Told, Says
  <2> QED
    BY <2>2, <2>3
<1> QED
  BY <1>6, <1>7 DEF Told

LEMMA ToldSame ==
  ASSUME UNCHANGED <<out, announced>>, NEW t, NEW s, NEW h
  PROVE  Told(t, s, h)' <=> Told(t, s, h)
BY DEF Told

LEMMA ReadyStep == ParserInv /\ ReadyInv /\ [Next]_vars => ReadyInv'
<1> SUFFICES ASSUME ParserInv, ReadyInv, [Next]_vars, ~torn',
                    NEW t \in Title, NEW s \in Seqs
             PROVE  Told(t, s, RowOf(RowsToBe(t), s))'
  BY DEF ReadyInv
<1>1. ~torn
  BY DEF Next, ParserStep, Poll, Handle, HandleUnchanged, HandleUnparseable, BeginWrite,
     CommitWrite, BeginDelete, DeleteRows, Deliver, DeliverLetter, Flush, Commit, Fault, HandleFails,
     DeliveryFails, LetterFails, FlushTimesOut, CommitLost, Crash, CrawlerStep, PageGone, PageFetched, vars
<1>2. PICK h : h = RowOf(RowsToBe(t), s)
  OBVIOUS
<1>3. Told(t, s, h)
  BY <1>1, <1>2 DEF ReadyInv
<1>4. CASE BeginWrite \/ BeginDelete
  BY <1>1, <1>4, RecordTells
<1>5. ASSUME RowsToBe(t)' = RowsToBe(t), Deliver \/ UNCHANGED <<out, announced>>
      PROVE  Told(t, s, RowOf(RowsToBe(t), s))'
  <2>1. Told(t, s, h)'
    BY <1>3, <1>5, DeliveryTells, ToldSame
  <2>2. RowOf(RowsToBe(t), s)' = h
    BY <1>2, <1>5 DEF RowOf
  <2> QED
    BY <2>1, <2>2 DEF Told
<1>6. CASE CommitWrite \/ DeleteRows
  <2>1. RowsToBe(t)' = RowsToBe(t)
    BY <1>6, RowsStep
    DEF CommitWrite, DeleteRows, NextRecord, RowsToBe, RowsAfter, ParserInv, TypeInv
  <2> QED
    BY <1>5, <1>6, <2>1 DEF CommitWrite, DeleteRows
<1>7. CASE Deliver \/ DeliverLetter \/ LetterFails \/ UNCHANGED vars
  <2>1. /\ UNCHANGED <<raw, cursor, chunkRows, parsed, pc>>
        /\ Deliver \/ UNCHANGED <<out, announced>>
    BY <1>7 DEF Deliver, DeliverLetter, LetterFails, vars, crawler, store
  <2> QED
    BY <1>5, <2>1 DEF RowsToBe, Target, Page
<1>8. CASE CrawlerStep
  <2>1. UNCHANGED <<cursor, chunkRows, parsed, pc, out, announced>>
    BY <1>8 DEF CrawlerStep, PageGone, PageFetched, store
  <2>2. pc \in {"write", "delete"} => Page' = Page
    BY <2>1, RawStep, RecordInHand DEF Page
  <2> QED
    BY <1>5, <2>1, <2>2 DEF RowsToBe, Target
<1>9. CASE Poll \/ HandleUnchanged \/ HandleUnparseable \/ HandleFails \/ Flush
           \/ FlushTimesOut \/ Commit \/ CommitLost
  <2>1. /\ UNCHANGED <<chunkRows, out, announced>>
        /\ pc \notin {"write", "delete"} /\ pc' \notin {"write", "delete"}
    BY <1>9 DEF Poll, HandleUnchanged, HandleUnparseable, HandleFails, Flush, FlushTimesOut,
       Commit, CommitLost, Handling, NextRecord, store
  <2> QED
    BY <1>5, <2>1 DEF RowsToBe
<1>10. CASE Crash
  <2>1. /\ UNCHANGED <<chunkRows, announced>> /\ out = <<>> /\ out' = <<>>
        /\ pc \notin {"write", "delete"} /\ pc' \notin {"write", "delete"}
    BY <1>10 DEF Crash, store
  <2> QED
    BY <1>5, <2>1 DEF RowsToBe
<1>11. ~DeliveryFails
  BY DEF DeliveryFails
<1> QED
  BY <1>4, <1>6, <1>7, <1>8, <1>9, <1>10, <1>11 DEF Next, ParserStep, Handle, Fault

\* parser._write and delete_document: as long as no message was lost and no record
\* cut off, whoever has read chunks.ready to its end holds exactly the chunk rows.
THEOREM ReadyFollowsRows == Spec => []ReadyMatchesRows
<1>1. Init => ReadyInv
  <2> SUFFICES ASSUME Init, NEW t \in Title, NEW s \in Seqs
               PROVE  Told(t, s, RowOf(RowsToBe(t), s))
    BY DEF ReadyInv
  <2>1. s \in Nat \ {0}
    BY ChunksAssumption DEF Seqs
  <2>2. RowOf(RowsToBe(t), s) = Absent
    BY <2>1 DEF Init, RowsToBe, RowOf
  <2> QED
    BY <2>2 DEF Init, Told, Silent
<1>2. ParserInv /\ ReadyInv => ReadyMatchesRows
  <2> SUFFICES ASSUME ParserInv, ReadyInv, Drained, NEW t \in Title, NEW s \in Seqs
               PROVE  announced[t][s] = RowOf(chunkRows[t], s)
    BY DEF ReadyMatchesRows, RowOf
  <2>1. Told(t, s, RowOf(chunkRows[t], s))
    BY DEF ReadyInv, Drained, RowsToBe
  <2> QED
    BY <2>1 DEF Told, Says, Drained
<1> QED
  BY <1>1, <1>2, ParserInvariant, ReadyStep, PTL DEF Spec

-------------------------------------------------------------------------------
(* The canaries.                                                           *)

\* Record k is about the page that canary c watches, and was not cut off.
AboutCanary(k, c) == raw[k].version # Absent /\ raw[k].title \in {c, Canonical[c]}
Well(k) == faults = 0 \/ k \notin DeadLettered

\* Before record i the redirect of c was surely recorded.
Led(i, c) ==
  /\ \E j \in 1..(i - 1) : AboutCanary(j, c) /\ raw[j].title = c
  /\ \A j \in 1..(i - 1) : AboutCanary(j, c) /\ raw[j].title = c =>
       Well(j) /\ Chars[raw[j].version] >= MinBody

\* Record i is the last fetch of c, and one the watch can see.
Decides(i, c) ==
  /\ AboutCanary(i, c) /\ Well(i) /\ \A k \in (i + 1)..Len(raw) : ~AboutCanary(k, c)
  /\ Chars[raw[i].version] > 0
  /\ raw[i].title = c \/ Led(i, c)

\* A record is measured when its transaction begins.
Checked == IF pc = "write" THEN cursor ELSE Passed

AlarmInv ==
  \A c \in Canary, i \in 1..Checked :
    Decides(i, c) => (c \in alarms <=> Deviates(baseline[c], Chars[raw[i].version]))

RedirectInv ==
  \A c \in Canary, j \in 1..Checked : Fetched(j, c) =>
    \/ Canonical[c] = c \/ c \in redirects \/ ~Well(j)
    \/ \E k \in 1..Len(raw) : Fetched(k, c) /\ Chars[raw[k].version] < MinBody

WatchInv == baseline \in [Canary -> Nat] /\ AlarmInv /\ RedirectInv

\* A page is measured for one canary, whose page it is, and for no other.
LEMMA OneCanary ==
  ASSUME NEW t \in Title, NEW c \in CanaryOf(t)
  PROVE  c \in Canary /\ t \in {c, Canonical[c]} /\ CanaryOf(t) = {c}
BY CanaryAssumption DEF CanaryOf

LEMMA CanaryMeasured ==
  ASSUME NEW t \in Title, NEW n \in Nat, CheckCanary(t, n), baseline \in [Canary -> Nat],
         NEW c \in Canary
  PROVE  /\ baseline' \in [Canary -> Nat]
         /\ c \in CanaryOf(t) => (c \in alarms' <=> Deviates(baseline'[c], n))
         /\ c \notin CanaryOf(t) => /\ baseline'[c] = baseline[c]
                                    /\ c \in alarms' <=> c \in alarms
<1>1. CASE CanaryOf(t) = {}
  BY <1>1 DEF CheckCanary, watch
<1>2. ASSUME NEW d \in CanaryOf(t),
             baseline' = [baseline EXCEPT ![d] = IF baseline[d] = 0 THEN n ELSE baseline[d]],
             alarms' = IF Deviates(baseline'[d], n) THEN alarms \cup {d} ELSE alarms \ {d}
      PROVE  /\ baseline' \in [Canary -> Nat]
             /\ c \in CanaryOf(t) => (c \in alarms' <=> Deviates(baseline'[c], n))
             /\ c \notin CanaryOf(t) => /\ baseline'[c] = baseline[c]
                                        /\ c \in alarms' <=> c \in alarms
  <2>1. d \in Canary /\ CanaryOf(t) = {d}
    BY OneCanary
  <2>2. baseline' \in [Canary -> Nat] /\ (c # d => baseline'[c] = baseline[c])
    BY <1>2, <2>1
  <2>3. c \in alarms' <=> IF c = d THEN Deviates(baseline'[d], n) ELSE c \in alarms
    BY <1>2
  <2> QED
    BY <2>1, <2>2, <2>3
<1> QED
  BY <1>1, <1>2 DEF CheckCanary

\* A step measures at most the record in hand.
LEMMA CheckedStep ==
  ASSUME ParserInv, [Next]_vars
  PROVE  /\ Checked \in Nat /\ Checked =< Len(raw)
         /\ pc # "write" /\ Handling => Checked = cursor - 1
         /\ \A i \in 1..Checked' :
              \/ i \in 1..Checked
              \/ /\ i = cursor /\ cursor \in 1..Len(raw)
                 /\ \/ BeginWrite \/ HandleUnparseable \/ HandleUnchanged
                    \/ cursor \in DeadLettered' /\ faults' # 0
                    \/ DeleteRows
<1> USE DEF ParserInv, TypeInv, LoopInv, Passed, Checked, offsets, deadLetters, DeadLettered
<1>1. CASE UNCHANGED vars \/ Deliver \/ DeliveryFails \/ DeliverLetter \/ LetterFails \/ CrawlerStep
  <2>1. UNCHANGED <<pc, cursor, rawCommitted, rawPosition>>
    BY <1>1 DEF vars, Deliver, DeliveryFails, DeliverLetter, LetterFails, CrawlerStep, PageGone,
       PageFetched
  <2> QED
    BY <2>1 DEF Handling
<1>2. CASE Poll
  BY <1>2 DEF Poll, Handling
<1>3. CASE HandleUnchanged \/ HandleUnparseable \/ BeginWrite
  <2>1. cursor \in 1..Len(raw)
    BY <1>3, RecordInHand DEF HandleUnchanged, HandleUnparseable, BeginWrite
  <2> QED
    BY <1>3, <2>1 DEF HandleUnchanged, HandleUnparseable, SendDeadLetter, BeginWrite, Handling,
       NextRecord
<1>4. CASE BeginDelete
  BY <1>4 DEF BeginDelete, Handling
<1>5. CASE CommitWrite \/ DeleteRows \/ HandleFails
  <2>1. cursor \in 1..Len(raw)
    BY <1>5, RecordInHand DEF CommitWrite, DeleteRows, HandleFails
  <2> QED
    BY <1>5, <2>1 DEF CommitWrite, DeleteRows, HandleFails, SendDeadLetter, Handling, NextRecord
<1>6. CASE Flush \/ FlushTimesOut \/ Commit \/ CommitLost \/ Crash
  BY <1>6 DEF Flush, FlushTimesOut, Commit, CommitLost, Crash, Handling
<1> QED
  BY <1>1, <1>2, <1>3, <1>4, <1>5, <1>6 DEF Next, ParserStep, Handle, Fault

\* What the watch rests on only grows.
LEMMA WatchGrows ==
  ASSUME ParserInv, [Next]_vars
  PROVE  /\ redirects \subseteq redirects'
         /\ \A k : Well(k)' => Well(k)
         /\ \/ UNCHANGED <<baseline, alarms>>
            \/ HandleUnparseable \/ BeginWrite
<1> USE DEF ParserInv, TypeInv, Well, deadLetters, DeadLettered
<1>1. CASE BeginWrite \/ HandleUnparseable
  BY <1>1 DEF BeginWrite, HandleUnparseable, SendDeadLetter, store, watch
<1>2. CASE UNCHANGED vars
  BY <1>2 DEF vars, store, watch
<1>3. CASE Deliver \/ CrawlerStep \/ Poll \/ HandleUnchanged \/ BeginDelete
           \/ CommitWrite \/ DeleteRows
  BY <1>3 DEF Deliver, CrawlerStep, PageGone, PageFetched, Poll, HandleUnchanged,
     BeginDelete, CommitWrite, DeleteRows, store, watch
<1>4. CASE DeliveryFails \/ HandleFails \/ DeliverLetter \/ LetterFails
  BY <1>4 DEF DeliveryFails, HandleFails, DeliverLetter, LetterFails, SendDeadLetter, store, watch
<1>5. CASE Flush \/ FlushTimesOut \/ Commit \/ CommitLost \/ Crash
  BY <1>5 DEF Flush, FlushTimesOut, Commit, CommitLost, Crash, store, watch
<1> QED
  BY <1>1, <1>2, <1>3, <1>4, <1>5 DEF Next, ParserStep, Handle, Fault

LEMMA LogGrows ==
  ASSUME ParserInv, [Next]_vars
  PROVE  /\ Len(raw) \in Nat /\ Len(raw') \in Nat /\ Len(raw) =< Len(raw')
         /\ \A i \in 1..Len(raw) : i \in 1..Len(raw') /\ raw'[i] = raw[i]
         /\ \A c : \A i \in 1..Len(raw) : /\ AboutCanary(i, c)' <=> AboutCanary(i, c)
                                          /\ Fetched(i, c)' <=> Fetched(i, c)
<1>1. /\ Len(raw) \in Nat /\ Len(raw') \in Nat /\ Len(raw) =< Len(raw')
      /\ \A i \in 1..Len(raw) : i \in 1..Len(raw') /\ raw'[i] = raw[i]
  BY RawStep DEF ParserInv, TypeInv
<1> QED
  BY <1>1 DEF AboutCanary, Fetched

LEMMA RedirectStep ==
  ASSUME ParserInv, WatchInv, [Next]_vars
  PROVE  RedirectInv'
<1> SUFFICES ASSUME NEW c \in Canary, NEW j \in 1..Checked', Fetched(j, c)',
                    Canonical[c] # c, c \notin redirects', Well(j)'
             PROVE  \E k \in 1..Len(raw') : Fetched(k, c)' /\ Chars[raw'[k].version] < MinBody
  BY DEF RedirectInv
<1>1. j \in 1..Len(raw) /\ Fetched(j, c) /\ Well(j) /\ c \notin redirects
  BY LogGrows, CheckedStep, WatchGrows
<1>2. CASE j \in 1..Checked
  <2>1. PICK k \in 1..Len(raw) : Fetched(k, c) /\ Chars[raw[k].version] < MinBody
    BY <1>1, <1>2 DEF WatchInv, RedirectInv
  <2> QED
    BY <2>1, LogGrows
<1>3. CASE j \notin 1..Checked
  <2>1. /\ j = cursor /\ cursor \in 1..Len(raw) /\ Page = c /\ Incoming # Absent
        /\ BeginWrite \/ HandleUnparseable \/ HandleUnchanged \/ DeleteRows
    BY <1>1, <1>3, CheckedStep DEF Well, Fetched, Page, Incoming
  <2>2. c \in CanaryOf(Page)
    BY <2>1 DEF CanaryOf
  <2>3. ~HandleUnchanged
    BY <2>2 DEF HandleUnchanged, Unchanged
  <2>4. ~DeleteRows
    BY <2>1 DEF DeleteRows, ParserInv, RowInv
  <2>5. ~BeginWrite
    BY <2>1 DEF BeginWrite, Target
  <2>6. Chars[blob[Page]] < MinBody
    BY <2>1, <2>3, <2>4, <2>5 DEF HandleUnparseable
  <2>7. PICK k \in 1..Len(raw) : Fetched(k, c) /\ raw[k].version = blob[c]
    <3>1. c \in Title
      BY ChunksAssumption
    <3> QED
      BY <1>1, <3>1 DEF ParserInv, BlobInv
  <2> QED
    BY <2>1, <2>6, <2>7, LogGrows
<1> QED
  BY <1>2, <1>3

\* The record in hand decides: it is measured, for the canary it decides for.
LEMMA DecidingIsMeasured ==
  ASSUME ParserInv, WatchInv, Handling, NEW c \in Canary, NEW i \in 1..Len(raw), i = cursor,
         Decides(i, c)
  PROVE  c \in CanaryOf(Page) /\ blob[Page] = raw[i].version /\ Page \in Title
<1>1. /\ Incoming # Absent /\ Page \in {c, Canonical[c]} /\ Page \in Title
      /\ Checked = i - 1 /\ raw[i].title = Page /\ raw[i].version = Incoming
  BY RecordInHand DEF Decides, AboutCanary, Page, Incoming, Checked, Passed, Handling
<1>2. blob[Page] = raw[i].version
  <2>1. ASSUME NEW k \in 1..Len(raw), i < k PROVE ~Fetched(k, Page)
    <3>1. k \in (i + 1)..Len(raw)
      BY <2>1
    <3> QED
      BY <1>1, <3>1 DEF Decides, AboutCanary, Fetched
  <2> QED
    BY <1>1, <2>1 DEF ParserInv, BlobInv, Fetched
<1>3. CASE Page = c
  BY <1>1, <1>2, <1>3 DEF CanaryOf
<1>4. CASE Page # c
  <2>1. Page = Canonical[c] /\ Canonical[c] # c /\ Led(i, c)
    BY <1>1, <1>4 DEF Decides
  <2>2. PICK j \in 1..(i - 1) : AboutCanary(j, c) /\ raw[j].title = c
    BY <2>1 DEF Led
  <2>3. j \in 1..Len(raw) /\ j \in 1..Checked /\ Fetched(j, c) /\ Well(j)
    <3>1. j \in 1..Len(raw) /\ j \in 1..Checked
      BY <1>1
    <3> QED
      BY <2>1, <2>2, <3>1 DEF AboutCanary, Fetched, Led
  <2>4. ASSUME NEW k \in 1..Len(raw), Fetched(k, c) PROVE Chars[raw[k].version] >= MinBody
    <3>1. AboutCanary(k, c) /\ raw[k].title = c
      BY <2>4 DEF AboutCanary, Fetched
    <3>2. CASE k < i
      <4>1. k \in 1..(i - 1)
        BY <3>2
      <4> QED
        BY <2>1, <3>1, <4>1 DEF Led
    <3>3. CASE k = i
      BY <1>1, <1>4, <3>1, <3>3
    <3>4. CASE i < k
      <4>1. k \in (i + 1)..Len(raw)
        BY <3>4
      <4> QED
        BY <3>1, <4>1 DEF Decides
    <3> QED
      BY <3>2, <3>3, <3>4
  <2>5. c \in redirects
    <3>1. \A k \in 1..Len(raw) : Fetched(k, c) => ~(Chars[raw[k].version] < MinBody)
      <4>1. \A v \in Version : Chars[v] \in Nat /\ MinBody \in Nat
        BY ChunksAssumption
      <4>2. \A k \in 1..Len(raw) : Fetched(k, c) => raw[k].version \in Version
        <5>1. \A k \in 1..Len(raw) : raw[k] \in Raw
          BY DEF ParserInv, TypeInv
        <5> QED
          BY <5>1 DEF Raw, Fetched
      <4> QED
        BY <2>4, <4>1, <4>2
    <3> QED
      BY <2>1, <2>3, <3>1 DEF WatchInv, RedirectInv
  <2>6. Page \notin Canary
    <3>1. c \in Title /\ Canonical[Canonical[c]] = Canonical[c]
      BY ChunksAssumption, CanonicalAssumption
    <3> QED
      BY <2>1, <3>1, CanaryAssumption
  <2> QED
    BY <1>1, <1>2, <2>1, <2>5, <2>6 DEF CanaryOf
<1> QED
  BY <1>1, <1>2, <1>3, <1>4

\* What decided after the step decided before it.
LEMMA DecidedBefore ==
  ASSUME ParserInv, [Next]_vars, NEW c \in Canary, NEW i \in 1..Len(raw), Decides(i, c)'
  PROVE  Decides(i, c) /\ raw'[i] = raw[i]
<1>1. /\ AboutCanary(i, c) /\ Well(i) /\ raw'[i] = raw[i] /\ Chars[raw[i].version] > 0
  BY LogGrows, WatchGrows DEF Decides
<1>2. ASSUME NEW k \in (i + 1)..Len(raw) PROVE ~AboutCanary(k, c)
  <2>1. k \in 1..Len(raw) /\ k \in (i + 1)..Len(raw')
    BY LogGrows
  <2> QED
    BY <2>1, LogGrows DEF Decides
<1>3. ASSUME Led(i, c)' PROVE Led(i, c)
  <2>1. \A j \in 1..(i - 1) : j \in 1..Len(raw) /\ raw'[j] = raw[j]
                              /\ (AboutCanary(j, c)' <=> AboutCanary(j, c)) /\ (Well(j)' => Well(j))
    <3>1. \A j \in 1..(i - 1) : j \in 1..Len(raw)
      BY LogGrows
    <3> QED
      BY <3>1, LogGrows, WatchGrows
  <2> QED
    BY <1>3, <2>1 DEF Led
<1> QED
  BY <1>1, <1>2, <1>3 DEF Decides

LEMMA AlarmStep ==
  ASSUME ParserInv, WatchInv, [Next]_vars
  PROVE  baseline' \in [Canary -> Nat] /\ AlarmInv'
<1> USE DEF WatchInv
<1>1. ASSUME NEW c \in Canary, HandleUnparseable \/ BeginWrite, Chars[blob[Page]] > 0
      PROVE  CheckCanary(Page, Chars[blob[Page]])
  BY <1>1 DEF HandleUnparseable, BeginWrite
<1>2. ASSUME HandleUnparseable \/ BeginWrite
      PROVE  /\ Chars[blob[Page]] \in Nat /\ Page \in Title
             /\ Incoming # Absent /\ Handling /\ cursor \in 1..Len(raw)
             /\ UNCHANGED watch \/ CheckCanary(Page, Chars[blob[Page]])
  BY <1>2, RecordInHand, ChunksAssumption DEF HandleUnparseable, BeginWrite
<1>3. baseline' \in [Canary -> Nat]
  <2>1. CASE UNCHANGED <<baseline, alarms>>
    BY <2>1
  <2>2. CASE HandleUnparseable \/ BeginWrite
    <3>1. CASE Canary = {}
      <4>1. UNCHANGED watch
        BY <1>2, <2>2, <3>1 DEF CheckCanary, CanaryOf
      <4> QED
        BY <4>1 DEF watch
    <3>2. CASE Canary # {}
      BY <1>2, <2>2, <3>2, CanaryMeasured DEF watch
    <3> QED
      BY <3>1, <3>2
  <2> QED
    BY <2>1, <2>2, WatchGrows
<1>4. ASSUME NEW c \in Canary, NEW i \in 1..Checked', Decides(i, c)'
      PROVE  c \in alarms' <=> Deviates(baseline'[c], Chars[raw'[i].version])
  <2>1. i \in 1..Len(raw)
    BY CheckedStep
  <2>2. Decides(i, c) /\ raw'[i] = raw[i]
    BY <1>4, <2>1, DecidedBefore
  <2>3. CASE i \in 1..Checked
    <3>1. c \in alarms <=> Deviates(baseline[c], Chars[raw[i].version])
      BY <2>2, <2>3 DEF AlarmInv
    <3>2. CASE UNCHANGED <<baseline, alarms>>
      BY <2>2, <3>1, <3>2
    <3>3. CASE HandleUnparseable \/ BeginWrite
      <4>1. i < cursor /\ cursor \in 1..Len(raw)
        BY <1>2, <2>3, <3>3, CheckedStep DEF Handling, ParserInv, TypeInv
      <4>2. PICK k \in (i + 1)..Len(raw) : k = cursor
        BY <2>1, <4>1
      <4>3. c \notin CanaryOf(Page)
        <5>1. ~AboutCanary(k, c)
          BY <2>2, <4>2 DEF Decides
        <5> QED
          BY <1>2, <3>3, <4>2, <5>1, OneCanary DEF AboutCanary, Page, Incoming
      <4>4. baseline'[c] = baseline[c] /\ (c \in alarms' <=> c \in alarms)
        BY <1>2, <3>3, <4>3, CanaryMeasured DEF watch
      <4> QED
        BY <2>2, <3>1, <4>4
    <3> QED
      BY <3>2, <3>3, WatchGrows
  <2>4. CASE i \notin 1..Checked
    <3>1. i = cursor /\ (BeginWrite \/ HandleUnparseable \/ HandleUnchanged)
      <4>1. ~DeleteRows \/ i # cursor
        BY <2>2 DEF DeleteRows, ParserInv, RowInv, Decides, AboutCanary, Incoming
      <4> QED
        BY <1>4, <2>4, <4>1, CheckedStep DEF Decides, Well
    <3>2. Handling
      BY <3>1 DEF BeginWrite, HandleUnparseable, HandleUnchanged
    <3>3. c \in CanaryOf(Page) /\ blob[Page] = raw[i].version /\ Page \in Title
      BY <2>1, <2>2, <3>1, <3>2, DecidingIsMeasured
    <3>4. BeginWrite \/ HandleUnparseable
      BY <3>1, <3>3 DEF HandleUnchanged, Unchanged
    <3>5. CheckCanary(Page, Chars[blob[Page]]) /\ Chars[blob[Page]] \in Nat
      BY <1>1, <1>2, <2>2, <3>3, <3>4 DEF Decides
    <3>6. c \in alarms' <=> Deviates(baseline'[c], Chars[blob[Page]])
      BY <3>3, <3>5, CanaryMeasured
    <3> QED
      BY <2>2, <3>3, <3>6
  <2> QED
    BY <2>3, <2>4
<1> QED
  BY <1>3, <1>4 DEF AlarmInv

\* parser.check_canary: once docs.raw is consumed, the last fetch of a canary that
\* could be measured decides its alarm, through replays, crashes and redirects.
THEOREM CanariesStayCurrent == Spec => []CanaryIsCurrent
<1>1. Init => WatchInv
  BY DEF Init, WatchInv, AlarmInv, RedirectInv, Checked, Passed
<1>2. ParserInv /\ WatchInv /\ [Next]_vars => WatchInv'
  BY AlarmStep, RedirectStep DEF WatchInv
<1>3. ParserInv /\ WatchInv => CanaryIsCurrent
  <2> SUFFICES ASSUME ParserInv, WatchInv, pc = "poll", rawCommitted = Len(raw),
                      NEW c \in Canary, NEW i \in 1..Len(raw), Decides(i, c)
               PROVE  c \in alarms <=> Deviates(baseline[c], Chars[raw[i].version])
    BY DEF CanaryIsCurrent, Decides, AboutCanary, Well, Led
  <2> QED
    BY DEF WatchInv, AlarmInv, Checked, Passed
<1> QED
  BY <1>1, <1>2, <1>3, ParserInvariant, PTL DEF Spec


-------------------------------------------------------------------------------
(***************************************************************************)
(* The chunker, which the parser calls for every document: what a section  *)
(* says is read by its chunks, in order and nothing twice but the overlap. *)
(* A text is judged by what a reader of the letters so far makes of it     *)
(* (Reads), a sequence of texts by reading on where the last one ended     *)
(* (Chain), and the loops are followed unit by unit (Put) and item by item *)
(* (Placed).                                                               *)
(***************************************************************************)

\* A set of naturals that has a member has a least one.
LEMMA Least ==
  ASSUME NEW P \in SUBSET Nat, NEW x \in P
  PROVE  \E i \in P : \A j \in P : i =< j
<1>1. \E i \in P : \A j \in P : ~(<<j, i>> \in OpToRel(<, Nat))
  BY NatLessThanWellFounded, WFMin
<1>2. PICK i \in P : \A j \in P : ~(<<j, i>> \in OpToRel(<, Nat))
  BY <1>1
<1>3. \A j \in P : ~(j < i)
  BY <1>2 DEF OpToRel
<1>4. \A j \in P : i =< j
  BY <1>3
<1> QED BY <1>4

\* What holds of 0, and of i + 1 if of i, holds up to n.
LEMMA UpTo ==
  ASSUME NEW n \in Nat, NEW P, 0 \in P, \A i \in 0..(n - 1) : i \in P => i + 1 \in P
  PROVE  \A i \in 0..n : i \in P
<1> SUFFICES ASSUME NEW i \in 0..n, i \notin P PROVE FALSE
  OBVIOUS
<1> DEFINE R == {j \in 0..n : j \notin P}
<1>1. PICK m \in R : \A j \in R : m =< j
  <2>1. R \in SUBSET Nat /\ i \in R
    OBVIOUS
  <2> QED BY <2>1, Least
<1>2. m # 0 /\ m \in 1..n /\ m - 1 \in 0..(n - 1)
  BY <1>1
<1>3. m - 1 \in P
  BY <1>1, <1>2
<1> QED BY <1>1, <1>2, <1>3

\* The places of a concatenation.
LEMMA ConcatFacts ==
  ASSUME NEW S, NEW x \in Seq(S), NEW y \in Seq(S)
  PROVE  /\ x \o y \in Seq(S) /\ Len(x \o y) = Len(x) + Len(y)
         /\ Len(x) \in Nat /\ Len(y) \in Nat
         /\ \A i \in 1..Len(x) : (x \o y)[i] = x[i]
         /\ \A i \in 1..Len(y) : (x \o y)[Len(x) + i] = y[i]
         /\ \A i \in 1..(Len(x) + Len(y)) :
              \/ i \in 1..Len(x) /\ (x \o y)[i] = x[i]
              \/ i > Len(x) /\ i - Len(x) \in 1..Len(y) /\ (x \o y)[i] = y[i - Len(x)]
OBVIOUS

\* A sequence, from what it holds.
LEMMA Retyped ==
  ASSUME NEW S, NEW T, NEW s \in Seq(S), \A i \in 1..Len(s) : s[i] \in T
  PROVE  s \in Seq(T)
OBVIOUS

\* What Pack puts together, unit by unit.
LEMMA PackedExists ==
  ASSUME NEW units, Len(units) \in Nat, NEW ov
  PROVE  \E g : /\ g = [i \in 0..Len(units) |-> IF i = 0 THEN <<>> ELSE Put(g[i - 1], units[i], ov)]
                /\ Pack(units, ov) = g[Len(units)]
<1> DEFINE n == Len(units)
           F(g, k) == [i \in 0..k |-> IF i = 0 THEN <<>> ELSE Put(g[i - 1], units[i], ov)]
           P == {k \in 0..n : \E g : g = F(g, k)}
<1>0. n \in Nat
  OBVIOUS
<1>1. 0 \in P
  <2> DEFINE g == [i \in 0..0 |-> <<>>]
  <2>1. \A i \in 0..0 : g[i] = IF i = 0 THEN <<>> ELSE Put(g[i - 1], units[i], ov)
    OBVIOUS
  <2>2. g = [i \in 0..0 |-> g[i]]
    OBVIOUS
  <2> HIDE DEF g
  <2>3. g = F(g, 0)
    BY <2>1, <2>2
  <2>4. 0 \in 0..n
    OBVIOUS
  <2> QED BY <2>3, <2>4
<1>2. ASSUME NEW k \in 0..(n - 1), k \in P PROVE k + 1 \in P
  <2>1. PICK g : g = F(g, k)
    BY <1>2
  <2> DEFINE h == [i \in 0..(k + 1) |-> IF i = k + 1 THEN Put(g[k], units[k + 1], ov) ELSE g[i]]
  <2>2. \A i \in 0..(k + 1) : h[i] = IF i = 0 THEN <<>> ELSE Put(h[i - 1], units[i], ov)
    <3> SUFFICES ASSUME NEW i \in 0..(k + 1)
                 PROVE  h[i] = IF i = 0 THEN <<>> ELSE Put(h[i - 1], units[i], ov)
      OBVIOUS
    <3>1. CASE i = k + 1
      <4>1. h[i] = Put(g[k], units[i], ov) /\ h[i - 1] = g[k]
        BY <3>1
      <4> QED BY <4>1, <3>1
    <3>2. CASE i = 0
      <4>1. g[0] = <<>>
        BY <2>1
      <4> QED BY <4>1, <3>2
    <3>3. CASE i \in 1..k
      <4>1. g[i] = Put(g[i - 1], units[i], ov)
        BY <2>1, <3>3
      <4>2. h[i] = g[i] /\ h[i - 1] = g[i - 1]
        BY <3>3
      <4> QED BY <4>1, <4>2, <3>3
    <3> QED BY <3>1, <3>2, <3>3
  <2>4. h = [i \in 0..(k + 1) |-> h[i]]
    OBVIOUS
  <2> HIDE DEF h
  <2>3. h = F(h, k + 1)
    BY <2>2, <2>4
  <2>5. k + 1 \in 0..n
    BY <1>0
  <2> QED BY <2>3, <2>5
<1>3. n \in P
  <2> HIDE DEF P
  <2>1. \A i \in 0..n : i \in P
    BY <1>1, <1>2, UpTo
  <2> QED BY <2>1
<1>4. PICK g : g = F(g, n)
  BY <1>3
<1> DEFINE G == CHOOSE x : x = F(x, n)
<1>5. G = F(G, n)
  BY <1>4
<1>6. Pack(units, ov) = G[n]
  BY DEF Pack
<1> HIDE DEF G
<1> QED BY <1>5, <1>6

\* FlattenSeq, one sequence after the other.
LEMMA FlatSteps ==
  ASSUME NEW S, NEW seqs \in Seq(Seq(S))
  PROVE  \E F \in [0..Len(seqs) -> Seq(S)] :
           /\ F[0] = <<>>
           /\ \A i \in 1..Len(seqs) : F[i] = F[i - 1] \o seqs[i]
           /\ FlattenSeq(seqs) = F[Len(seqs)]
<1> DEFINE n == Len(seqs)
           F(g, k) == [i \in 1..k |-> IF i = 1 THEN seqs[i] ELSE g[i - 1] \o seqs[i]]
           P == {k \in 0..n : \E g : g = F(g, k)}
<1>0. n \in Nat /\ \A i \in 1..n : seqs[i] \in Seq(S)
  OBVIOUS
<1>1. 0 \in P
  <2> DEFINE g == [i \in 1..0 |-> <<>>]
  <2>1. \A i \in 1..0 : g[i] = IF i = 1 THEN seqs[i] ELSE g[i - 1] \o seqs[i]
    OBVIOUS
  <2>2. g = [i \in 1..0 |-> g[i]]
    OBVIOUS
  <2> HIDE DEF g
  <2>3. g = F(g, 0)
    BY <2>1, <2>2
  <2>4. 0 \in 0..n
    BY <1>0
  <2> QED BY <2>3, <2>4
<1>2. ASSUME NEW k \in 0..(n - 1), k \in P PROVE k + 1 \in P
  <2>1. PICK g : g = F(g, k)
    BY <1>2
  <2> DEFINE h == [i \in 1..(k + 1) |-> IF i = k + 1
                                          THEN (IF i = 1 THEN seqs[i] ELSE g[k] \o seqs[i])
                                          ELSE g[i]]
  <2>2. \A i \in 1..(k + 1) : h[i] = IF i = 1 THEN seqs[i] ELSE h[i - 1] \o seqs[i]
    <3> SUFFICES ASSUME NEW i \in 1..(k + 1)
                 PROVE  h[i] = IF i = 1 THEN seqs[i] ELSE h[i - 1] \o seqs[i]
      OBVIOUS
    <3>1. CASE i = k + 1 /\ i # 1
      <4>0. k \in 1..(k + 1) /\ k # k + 1 /\ i - 1 = k
        BY <3>1, <1>0
      <4>1. h[i] = g[k] \o seqs[i] /\ h[k] = g[k]
        BY <3>1, <4>0
      <4> QED BY <4>0, <4>1, <3>1
    <3>2. CASE i = k + 1 /\ i = 1
      BY <3>2
    <3>3. CASE i \in 1..k
      <4>1. g[i] = IF i = 1 THEN seqs[i] ELSE g[i - 1] \o seqs[i]
        BY <2>1, <3>3
      <4>2. h[i] = g[i] /\ (i # 1 => h[i - 1] = g[i - 1])
        BY <3>3
      <4> QED BY <4>1, <4>2, <3>3
    <3> QED BY <3>1, <3>2, <3>3
  <2>4. h = [i \in 1..(k + 1) |-> h[i]]
    OBVIOUS
  <2> HIDE DEF h
  <2>3. h = F(h, k + 1)
    BY <2>2, <2>4
  <2>5. k + 1 \in 0..n
    BY <1>0
  <2> QED BY <2>3, <2>5
<1>3. n \in P
  <2> HIDE DEF P
  <2>1. \A i \in 0..n : i \in P
    BY <1>0, <1>1, <1>2, UpTo
  <2>2. n \in 0..n
    BY <1>0
  <2> QED BY <2>1, <2>2
<1>4. PICK g : g = F(g, n)
  BY <1>3
<1> DEFINE G == CHOOSE x : x = F(x, n)
<1>5. G = F(G, n)
  BY <1>4
<1>6. n # 0 => FlattenSeq(seqs) = G[n]
  BY DEF FlattenSeq
<1> HIDE DEF G
<1>7. \A i \in 1..n : G[i] = IF i = 1 THEN seqs[i] ELSE G[i - 1] \o seqs[i]
  BY <1>5
<1> DEFINE H == [i \in 0..n |-> IF i = 0 THEN <<>> ELSE G[i]]
           Q == {i \in 0..n : H[i] \in Seq(S)}
<1>8. 0 \in Q
  OBVIOUS
<1>9. \A i \in 1..n : H[i] = H[i - 1] \o seqs[i]
  <2> TAKE i \in 1..n
  <2>1. CASE i = 1
    <3>1. G[1] = seqs[1] /\ seqs[1] \in Seq(S)
      BY <2>1, <1>7, <1>0
    <3>2. H[1] = G[1] /\ H[0] = <<>>
      BY <2>1, <1>0
    <3>3. <<>> \o seqs[1] = seqs[1]
      BY <3>1
    <3>4. i - 1 = 0 /\ i = 1
      BY <2>1
    <3> HIDE DEF H
    <3> QED BY <3>1, <3>2, <3>3, <3>4
  <2>2. CASE i # 1
    <3>1. H[i] = G[i] /\ H[i - 1] = G[i - 1]
      BY <2>2
    <3> QED BY <3>1, <2>2, <1>7
  <2> QED BY <2>1, <2>2
<1>10. \A i \in 0..(n - 1) : i \in Q => i + 1 \in Q
  <2> SUFFICES ASSUME NEW i \in 0..(n - 1), H[i] \in Seq(S) PROVE H[i + 1] \in Seq(S)
    <3> HIDE DEF H
    <3> QED BY <1>0
  <2>1. i + 1 \in 1..n /\ (i + 1) - 1 = i /\ seqs[i + 1] \in Seq(S)
    BY <1>0
  <2>2. H[i + 1] = H[i] \o seqs[i + 1]
    BY <2>1, <1>9
  <2> HIDE DEF H
  <2> QED BY <2>1, <2>2
<1>11. \A i \in 0..n : i \in Q
  <2> HIDE DEF Q
  <2> QED BY <1>0, <1>8, <1>10, UpTo
<1>12. FlattenSeq(seqs) = H[n]
  <2>1. CASE n = 0
    <3>1. FlattenSeq(seqs) = seqs /\ seqs = <<>>
      BY <2>1 DEF FlattenSeq
    <3> QED BY <3>1, <2>1
  <2> QED BY <2>1, <1>6
<1>13. H \in [0..n -> Seq(S)] /\ H[0] = <<>>
  BY <1>11
<1> HIDE DEF H
<1> QED BY <1>9, <1>12, <1>13

\* Each sequence has its place in the flat one.
LEMMA FlatPlaces ==
  ASSUME NEW S, NEW seqs \in Seq(Seq(S))
  PROVE  /\ FlattenSeq(seqs) \in Seq(S)
         /\ \E o \in [0..Len(seqs) -> 0..Len(FlattenSeq(seqs))] :
              /\ o[0] = 0 /\ o[Len(seqs)] = Len(FlattenSeq(seqs))
              /\ \A i \in 1..Len(seqs) :
                   /\ o[i] = o[i - 1] + Len(seqs[i])
                   /\ \A q \in 1..Len(seqs[i]) : FlattenSeq(seqs)[o[i - 1] + q] = seqs[i][q]
<1> DEFINE n == Len(seqs)
<1>1. PICK F \in [0..n -> Seq(S)] :
         F[0] = <<>> /\ (\A i \in 1..n : F[i] = F[i - 1] \o seqs[i]) /\ FlattenSeq(seqs) = F[n]
  BY FlatSteps
<1> DEFINE o == [i \in 0..n |-> Len(F[i])]
           P == {k \in 0..n : \A i \in 1..k :
                   /\ Len(F[i]) =< Len(F[k])
                   /\ \A q \in 1..Len(seqs[i]) : F[k][Len(F[i - 1]) + q] = seqs[i][q]}
<1>0. n \in Nat /\ \A i \in 1..n : seqs[i] \in Seq(S)
  OBVIOUS
<1>2. \A i \in 1..n : Len(F[i]) = Len(F[i - 1]) + Len(seqs[i])
  <2> TAKE i \in 1..n
  <2>0. i - 1 \in 0..n
    BY <1>0
  <2>1. F[i - 1] \in Seq(S) /\ seqs[i] \in Seq(S) /\ F[i] = F[i - 1] \o seqs[i]
    BY <1>0, <1>1, <2>0
  <2> QED BY <2>1
<1>3. 0 \in P
  BY <1>0
<1>4. ASSUME NEW k \in 0..(n - 1), k \in P PROVE k + 1 \in P
  <2>1. k + 1 \in 1..n /\ (k + 1) - 1 = k /\ k \in 0..n /\ k + 1 \in 0..n
    BY <1>0
  <2>2. F[k] \in Seq(S) /\ seqs[k + 1] \in Seq(S) /\ F[k + 1] = F[k] \o seqs[k + 1]
    <3>1. F[k + 1] = F[(k + 1) - 1] \o seqs[k + 1]
      BY <2>1, <1>1
    <3> QED BY <3>1, <2>1, <1>0, <1>1
  <2> SUFFICES ASSUME NEW i \in 1..(k + 1)
               PROVE  /\ Len(F[i]) =< Len(F[k + 1])
                      /\ \A q \in 1..Len(seqs[i]) : F[k + 1][Len(F[i - 1]) + q] = seqs[i][q]
    BY <2>1
  <2>4. F[i] \in Seq(S) /\ F[i - 1] \in Seq(S) /\ seqs[i] \in Seq(S) /\ i \in 1..n
    <3>1. i \in 1..n /\ i \in 0..n /\ i - 1 \in 0..n
      BY <1>0
    <3> QED BY <3>1, <1>0, <1>1
  <2> DEFINE x == F[k]
             y == seqs[k + 1]
             z == F[k + 1]
  <2>6. x \in Seq(S) /\ y \in Seq(S) /\ z = x \o y
    BY <2>2
  <2>7. /\ Len(z) = Len(x) + Len(y) /\ Len(x) \in Nat /\ Len(y) \in Nat
        /\ \A q \in 1..Len(x) : z[q] = x[q]
        /\ \A q \in 1..Len(y) : z[Len(x) + q] = y[q]
    <3> HIDE DEF x, y, z
    <3> QED BY <2>6, ConcatFacts
  <2>3. CASE i \in 1..k
    <3>1. /\ Len(F[i]) =< Len(x)
          /\ \A q \in 1..Len(seqs[i]) : x[Len(F[i - 1]) + q] = seqs[i][q]
      BY <1>4, <2>3
    <3>2. Len(F[i]) = Len(F[i - 1]) + Len(seqs[i])
      BY <1>2, <2>4
    <3> DEFINE u == Len(F[i - 1])
               v == Len(F[i])
               w == seqs[i]
    <3>4. v \in Nat /\ u \in Nat /\ Len(w) \in Nat
      BY <2>4
    <3> HIDE DEF x, y, z, u, v, w
    <3>5. v =< Len(x) /\ v = u + Len(w) /\ \A q \in 1..Len(w) : x[u + q] = w[q]
      BY <3>1, <3>2 DEF u, v, w
    <3>6. v =< Len(z) /\ \A q \in 1..Len(w) : u + q \in 1..Len(x)
      BY <3>4, <3>5, <2>7
    <3>7. v =< Len(z) /\ \A q \in 1..Len(w) : z[u + q] = w[q]
      BY <3>5, <3>6, <2>7
    <3> QED BY <3>7 DEF u, v, w, z
  <2>5. CASE i = k + 1
    <3> HIDE DEF x, y, z
    <3>1. Len(z) =< Len(z) /\ \A q \in 1..Len(y) : z[Len(x) + q] = y[q]
      BY <2>7
    <3> QED BY <3>1, <2>5, <2>1 DEF x, y, z
  <2> QED BY <2>3, <2>5
<1>5. n \in P
  <2> HIDE DEF P
  <2>1. \A i \in 0..n : i \in P
    BY <1>0, <1>3, <1>4, UpTo
  <2>2. n \in 0..n
    BY <1>0
  <2> QED BY <2>1, <2>2
<1>6. \A i \in 1..n : /\ Len(F[i]) =< Len(F[n])
                      /\ \A q \in 1..Len(seqs[i]) : F[n][Len(F[i - 1]) + q] = seqs[i][q]
  BY <1>5
<1>7. \A i \in 0..n : Len(F[i]) \in 0..Len(F[n])
  <2> TAKE i \in 0..n
  <2>1. F[i] \in Seq(S) /\ F[n] \in Seq(S)
    BY <1>1
  <2>2. CASE i = 0
    BY <2>1, <2>2, <1>1
  <2> QED BY <2>1, <2>2, <1>6
<1>8. o \in [0..n -> 0..Len(F[n])]
  BY <1>7
<1>9. o[0] = 0 /\ o[n] = Len(F[n])
  BY <1>1
<1>10. \A i \in 1..n : /\ o[i] = o[i - 1] + Len(seqs[i])
                       /\ \A q \in 1..Len(seqs[i]) : F[n][o[i - 1] + q] = seqs[i][q]
  <2> TAKE i \in 1..n
  <2>1. o[i] = Len(F[i]) /\ o[i - 1] = Len(F[i - 1])
    OBVIOUS
  <2> QED BY <2>1, <1>2, <1>6
<1>11. F[n] \in Seq(S)
  BY <1>0, <1>1
<1>12. FlattenSeq(seqs) = F[n]
  BY <1>1
<1>13. o \in [0..n -> 0..Len(FlattenSeq(seqs))]
  BY <1>8, <1>12
<1> HIDE DEF o
<1> QED BY <1>9, <1>10, <1>11, <1>12, <1>13

-------------------------------------------------------------------------------
\* What a text is made of.
Alpha == Char \cup {Gap}

\* The text t brings a reader who has the letters of f up to a as far as b: it says
\* no others, it says the new ones, and a letter not before the one it follows, if
\* that is new too.
Reads(f, t, a, b) ==
  /\ a =< b
  /\ \A q \in 1..Len(t) : t[q] = Gap \/ \E i \in 1..b : t[q] = f[i]
  /\ \A i \in (a + 1)..b : \E q \in 1..Len(t) : t[q] = f[i]
  /\ \A i \in (a + 2)..b, q \in 1..Len(t) : t[q] = f[i] => \E r \in 1..(q - 1) : t[r] = f[i - 1]

\* t has no character that is read before a.
New(f, t, a) == \A q \in 1..Len(t), i \in 1..a : t[q] # f[i]

\* Of the letters read before a, t has those alone that prev ends with, at its
\* beginning, at most ov characters of them.
Repeats(f, prev, t, a, ov) ==
  \E k \in 0..ov :
    /\ k =< Len(t) /\ k =< Len(prev)
    /\ \A q \in 1..k : t[q] = prev[Len(prev) - k + q]
    /\ \A q \in 1..Len(t), i \in 1..a : t[q] = f[i] => \E r \in 1..k : t[r] = f[i]

\* One text after the other.
LEMMA ConcatReads ==
  ASSUME NEW f \in Seq(Char), IsInjective(f), Gap \notin Char,
         NEW a \in Nat, NEW b \in Nat, NEW c \in Nat, a =< b, b =< c, c =< Len(f),
         NEW t \in Seq(Alpha), NEW u \in Seq(Alpha), Reads(f, t, a, b), Reads(f, u, b, c)
  PROVE  Reads(f, t \o u, a, c)
<1> DEFINE z == t \o u
<1>1. /\ Len(z) = Len(t) + Len(u) /\ Len(t) \in Nat /\ Len(u) \in Nat
      /\ \A i \in 1..Len(t) : z[i] = t[i]
      /\ \A i \in 1..Len(u) : z[Len(t) + i] = u[i]
      /\ \A i \in 1..(Len(t) + Len(u)) :
           \/ i \in 1..Len(t) /\ z[i] = t[i]
           \/ i > Len(t) /\ i - Len(t) \in 1..Len(u) /\ z[i] = u[i - Len(t)]
  BY ConcatFacts
<1> HIDE DEF z
<1>2. \A i, j \in 1..Len(f) : f[i] = f[j] => i = j
  BY DEF IsInjective
<1>3. \A i \in 1..Len(f) : f[i] # Gap
  OBVIOUS
<1>4. Len(f) \in Nat
  OBVIOUS
<1>8. /\ \A q \in 1..Len(t) : t[q] = Gap \/ \E i \in 1..b : t[q] = f[i]
      /\ \A q \in 1..Len(u) : u[q] = Gap \/ \E i \in 1..c : u[q] = f[i]
  BY DEF Reads
<1>5. ASSUME NEW q \in 1..Len(z) PROVE z[q] = Gap \/ \E i \in 1..c : z[q] = f[i]
  <2>1. CASE q \in 1..Len(t) /\ z[q] = t[q]
    <3>1. 1..b \subseteq 1..c
      OBVIOUS
    <3> QED BY <2>1, <1>8, <3>1
  <2>2. CASE q - Len(t) \in 1..Len(u) /\ z[q] = u[q - Len(t)]
    BY <2>2, <1>8
  <2> QED BY <1>1, <2>1, <2>2
<1>6. ASSUME NEW i \in (a + 1)..c PROVE \E q \in 1..Len(z) : z[q] = f[i]
  <2>1. CASE i =< b
    <3>1. PICK q \in 1..Len(t) : t[q] = f[i]
      BY <2>1 DEF Reads
    <3>2. q \in 1..Len(z) /\ z[q] = f[i]
      BY <1>1, <3>1
    <3> QED BY <3>2
  <2>2. CASE i > b
    <3>1. PICK q \in 1..Len(u) : u[q] = f[i]
      BY <2>2 DEF Reads
    <3>2. Len(t) + q \in 1..Len(z) /\ z[Len(t) + q] = f[i]
      BY <1>1, <3>1
    <3> QED BY <3>2
  <2> QED BY <2>1, <2>2
<1>7. ASSUME NEW i \in (a + 2)..c, NEW q \in 1..Len(z), z[q] = f[i]
      PROVE  \E r \in 1..(q - 1) : z[r] = f[i - 1]
  <2>1. CASE q \in 1..Len(t)
    <3>1. t[q] = f[i] /\ t[q] # Gap
      BY <1>1, <1>3, <1>4, <1>7, <2>1
    <3>2. PICK j \in 1..b : t[q] = f[j]
      BY <3>1, <2>1 DEF Reads
    <3>6. i \in 1..Len(f) /\ j \in 1..Len(f) /\ f[i] = f[j]
      BY <3>1, <3>2, <1>4
    <3>3. i = j
      BY <3>6, <1>2
    <3>4. PICK r \in 1..(q - 1) : t[r] = f[i - 1]
      BY <3>1, <3>3, <2>1 DEF Reads
    <3>5. z[r] = t[r]
      BY <1>1, <2>1, <3>4
    <3> QED BY <3>4, <3>5
  <2>2. CASE q > Len(t)
    <3>1. q - Len(t) \in 1..Len(u) /\ u[q - Len(t)] = f[i]
      BY <1>1, <1>7, <2>2
    <3>2. CASE i >= b + 2
      <4>3. i \in (b + 2)..c
        BY <3>2
      <4>1. PICK r \in 1..((q - Len(t)) - 1) : u[r] = f[i - 1]
        BY <3>1, <4>3 DEF Reads
      <4>2. Len(t) + r \in 1..(q - 1) /\ z[Len(t) + r] = f[i - 1]
        BY <1>1, <4>1, SMTT(30)
      <4> QED BY <4>2
    <3>3. CASE i =< b + 1
      <4>1. i - 1 \in (a + 1)..b
        BY <3>3
      <4>2. PICK r \in 1..Len(t) : t[r] = f[i - 1]
        BY <4>1 DEF Reads
      <4>3. r \in 1..(q - 1) /\ z[r] = f[i - 1]
        BY <1>1, <2>2, <4>2
      <4> QED BY <4>3
    <3> QED BY <3>2, <3>3
  <2> QED BY <2>1, <2>2, <1>1
<1>9. a =< c
  OBVIOUS
<1>10. Reads(f, z, a, c)
  BY <1>5, <1>6, <1>7, <1>9 DEF Reads
<1> QED BY <1>10 DEF z

\* What is new in the one and then in the other is new in both.
LEMMA ConcatNew ==
  ASSUME NEW f, NEW a \in Nat, NEW b \in Nat, a =< b,
         NEW t \in Seq(Alpha), NEW u \in Seq(Alpha), New(f, t, a), New(f, u, b)
  PROVE  New(f, t \o u, a)
<1>1. \A q \in 1..Len(t \o u) :
        \/ q \in 1..Len(t) /\ (t \o u)[q] = t[q]
        \/ q - Len(t) \in 1..Len(u) /\ (t \o u)[q] = u[q - Len(t)]
  BY ConcatFacts
<1> SUFFICES ASSUME NEW q \in 1..Len(t \o u), NEW i \in 1..a PROVE (t \o u)[q] # f[i]
  BY DEF New
<1>2. CASE q \in 1..Len(t) /\ (t \o u)[q] = t[q]
  BY <1>2 DEF New
<1>3. CASE q - Len(t) \in 1..Len(u) /\ (t \o u)[q] = u[q - Len(t)]
  <2>1. i \in 1..b
    OBVIOUS
  <2>2. u[q - Len(t)] # f[i]
    BY <1>3, <2>1 DEF New
  <2> QED BY <1>3, <2>2
<1> QED BY <1>1, <1>2, <1>3

\* White space says nothing.
LEMMA GapReads ==
  ASSUME NEW f \in Seq(Char), Gap \notin Char, NEW b \in Nat, b =< Len(f), NEW g \in Seq({Gap})
  PROVE  g \in Seq(Alpha) /\ Reads(f, g, b, b) /\ New(f, g, b)
<1>1. \A i \in 1..b : f[i] # Gap
  OBVIOUS
<1>2. \A q \in 1..Len(g) : g[q] = Gap
  OBVIOUS
<1> QED BY <1>1, <1>2 DEF Reads, New, Alpha

\* Letters of an earlier text say nothing new.
LEMMA OldReads ==
  ASSUME NEW f, NEW a \in Nat, NEW b \in Nat, NEW t, Reads(f, t, a, b), NEW u, Len(u) \in Nat,
         \A q \in 1..Len(u) : u[q] = Gap \/ \E r \in 1..Len(t) : u[q] = t[r]
  PROVE  Reads(f, u, b, b)
<1>1. \A q \in 1..Len(u) : u[q] = Gap \/ \E i \in 1..b : u[q] = f[i]
  BY DEF Reads
<1> QED BY <1>1 DEF Reads

\* A stretch of the letters.
LEMMA StretchReads ==
  ASSUME NEW f \in Seq(Char), IsInjective(f), NEW a \in Nat, NEW u \in Seq(Char),
         a + Len(u) =< Len(f), \A q \in 1..Len(u) : u[q] = f[a + q]
  PROVE  u \in Seq(Alpha) /\ Reads(f, u, a, a + Len(u)) /\ New(f, u, a)
<1> DEFINE b == a + Len(u)
<1>1. Len(u) \in Nat /\ Len(f) \in Nat
  OBVIOUS
<1>2. \A i, j \in 1..Len(f) : f[i] = f[j] => i = j
  BY DEF IsInjective
<1>3. u \in Seq(Alpha)
  BY DEF Alpha
<1>4. \A q \in 1..Len(u) : a + q \in 1..b /\ a + q \in 1..Len(f) /\ u[q] = f[a + q]
  BY <1>1
<1>5. \A i \in (a + 1)..b : i - a \in 1..Len(u) /\ u[i - a] = f[i]
  BY <1>1
<1>6. ASSUME NEW i \in (a + 2)..b, NEW q \in 1..Len(u), u[q] = f[i]
      PROVE  \E r \in 1..(q - 1) : u[r] = f[i - 1]
  <2>3. i \in 1..Len(f) /\ a + q \in 1..Len(f)
    BY <1>1, <1>4
  <2>4. f[i] = f[a + q]
    BY <1>4, <1>6
  <2>1. i = a + q
    BY <1>2, <2>3, <2>4
  <2>2. q - 1 \in 1..(q - 1) /\ u[q - 1] = f[i - 1]
    BY <2>1, <1>1, <1>5
  <2> QED BY <2>2
<1>7. New(f, u, a)
  <2> SUFFICES ASSUME NEW q \in 1..Len(u), NEW i \in 1..a, u[q] = f[i] PROVE FALSE
    BY DEF New
  <2>1. i \in 1..Len(f) /\ a + q \in 1..Len(f) /\ f[i] = f[a + q] /\ i # a + q
    BY <1>1, <1>4
  <2> QED BY <2>1, <1>2
<1>8. a =< b
  BY <1>1
<1>9. \A q \in 1..Len(u) : u[q] = Gap \/ \E i \in 1..b : u[q] = f[i]
  BY <1>4
<1>10. \A i \in (a + 1)..b : \E q \in 1..Len(u) : u[q] = f[i]
  BY <1>5
<1> HIDE DEF b
<1>11. Reads(f, u, a, b)
  BY <1>6, <1>8, <1>9, <1>10 DEF Reads, b
<1> QED BY <1>3, <1>7, <1>11 DEF b

\* Join is a concatenation, with white space in between or with nothing before it.
LEMMA JoinFacts ==
  ASSUME NEW t \in Seq(Alpha), NEW u \in Seq(Alpha)
  PROVE  LET z == Join(t, u)
         IN  /\ z \in Seq(Alpha) /\ Len(z) \in Nat /\ Len(t) \in Nat /\ Len(u) \in Nat
             /\ Len(t) + Len(u) =< Len(z) /\ Len(z) =< Len(t) + Len(u) + 1
             /\ t = <<>> => z = u
             /\ \E g \in Seq({Gap}) : z = (t \o g) \o u
             /\ \A q \in 1..Len(t) : z[q] = t[q]
             /\ \A q \in 1..Len(u) : z[Len(z) - Len(u) + q] = u[q]
             /\ \A q \in 1..Len(z) :
                  \/ q \in 1..Len(t) /\ z[q] = t[q]
                  \/ z[q] = Gap
                  \/ /\ q - (Len(z) - Len(u)) \in 1..Len(u)
                     /\ z[q] = u[q - (Len(z) - Len(u))]
<1> DEFINE g == IF t = <<>> THEN <<>> ELSE <<Gap>>
           y == t \o g
           z == Join(t, u)
<1>1. g \in Seq({Gap}) /\ Len(g) \in Nat /\ Len(g) =< 1 /\ \A q \in 1..Len(g) : g[q] = Gap
  <2>1. <<>> \in Seq({Gap}) /\ Len(<<>>) = 0
    OBVIOUS
  <2>2. <<Gap>> \in Seq({Gap}) /\ Len(<<Gap>>) = 1 /\ <<Gap>>[1] = Gap
    OBVIOUS
  <2>3. g = <<>> \/ g = <<Gap>>
    OBVIOUS
  <2> HIDE DEF g
  <2>4. CASE g = <<>>
    BY <2>1, <2>4
  <2>5. CASE g = <<Gap>>
    BY <2>2, <2>5
  <2> QED BY <2>3, <2>4, <2>5
<1>2. g \in Seq(Alpha)
  BY <1>1 DEF Alpha
<1>3. z = y \o u
  <2>1. CASE t = <<>>
    <3>1. y = <<>> /\ z = u /\ <<>> \o u = u
      BY <2>1 DEF Join
    <3> QED BY <3>1
  <2>2. CASE t # <<>>
    BY <2>2 DEF Join
  <2> QED BY <2>1, <2>2
<1>4. t = <<>> => z = u
  BY DEF Join
<1> HIDE DEF g, z
<1>5. /\ y \in Seq(Alpha) /\ Len(y) = Len(t) + Len(g) /\ Len(t) \in Nat /\ Len(g) \in Nat
      /\ \A i \in 1..Len(t) : y[i] = t[i]
      /\ \A i \in 1..(Len(t) + Len(g)) :
           \/ i \in 1..Len(t) /\ y[i] = t[i]
           \/ i > Len(t) /\ i - Len(t) \in 1..Len(g) /\ y[i] = g[i - Len(t)]
  BY <1>2, ConcatFacts
<1> HIDE DEF y
<1>6. /\ z \in Seq(Alpha) /\ Len(z) = Len(y) + Len(u) /\ Len(y) \in Nat /\ Len(u) \in Nat
      /\ \A i \in 1..Len(y) : z[i] = y[i]
      /\ \A i \in 1..Len(u) : z[Len(y) + i] = u[i]
      /\ \A i \in 1..(Len(y) + Len(u)) :
           \/ i \in 1..Len(y) /\ z[i] = y[i]
           \/ i > Len(y) /\ i - Len(y) \in 1..Len(u) /\ z[i] = u[i - Len(y)]
  <2>1. y \in Seq(Alpha)
    BY <1>5
  <2>2. z = y \o u
    BY <1>3
  <2> QED BY <2>1, <2>2, ConcatFacts
<1>7. Len(z) - Len(u) = Len(y) /\ Len(z) \in Nat
  BY <1>6
<1>8. Len(t) + Len(u) =< Len(z) /\ Len(z) =< Len(t) + Len(u) + 1
  <2>1. Len(g) \in Nat /\ Len(g) =< 1 /\ Len(y) = Len(t) + Len(g) /\ Len(t) \in Nat
    BY <1>1, <1>5
  <2>2. Len(z) = Len(y) + Len(u) /\ Len(u) \in Nat
    BY <1>6
  <2>3. Len(z) = Len(t) + Len(u) + Len(g)
    BY <2>1, <2>2
  <2> QED BY <2>1, <2>2, <2>3
<1>9. \A q \in 1..Len(t) : z[q] = t[q]
  BY <1>5, <1>6
<1>10. ASSUME NEW q \in 1..Len(z)
       PROVE  \/ q \in 1..Len(t) /\ z[q] = t[q]
              \/ z[q] = Gap
              \/ q - Len(y) \in 1..Len(u) /\ z[q] = u[q - Len(y)]
  BY <1>1, <1>5, <1>6
<1>11. \E x \in Seq({Gap}) : z = (t \o x) \o u
  BY <1>1, <1>3 DEF y
<1>12. /\ \A q \in 1..Len(u) : z[Len(z) - Len(u) + q] = u[q]
       /\ \A q \in 1..Len(z) :
            \/ q \in 1..Len(t) /\ z[q] = t[q]
            \/ z[q] = Gap
            \/ /\ q - (Len(z) - Len(u)) \in 1..Len(u)
               /\ z[q] = u[q - (Len(z) - Len(u))]
  BY <1>6, <1>7, <1>10
<1> QED BY <1>4, <1>5, <1>6, <1>7, <1>8, <1>9, <1>11, <1>12 DEF z

\* Two texts joined read what the one and then the other reads.
LEMMA JoinReads ==
  ASSUME NEW f \in Seq(Char), IsInjective(f), Gap \notin Char,
         NEW a \in Nat, NEW b \in Nat, NEW c \in Nat, a =< b, b =< c, c =< Len(f),
         NEW t \in Seq(Alpha), NEW u \in Seq(Alpha), Reads(f, t, a, b), Reads(f, u, b, c)
  PROVE  /\ Reads(f, Join(t, u), a, c)
         /\ New(f, t, a) /\ New(f, u, b) => New(f, Join(t, u), a)
<1>1. PICK g \in Seq({Gap}) : Join(t, u) = (t \o g) \o u
  BY JoinFacts
<1>2. g \in Seq(Alpha) /\ Reads(f, g, b, b) /\ New(f, g, b)
  BY GapReads
<1>3. t \o g \in Seq(Alpha) /\ Reads(f, t \o g, a, b)
  <2>1. t \o g \in Seq(Alpha)
    BY <1>2, ConcatFacts
  <2>2. Reads(f, t \o g, a, b)
    BY <1>2, ConcatReads
  <2> QED BY <2>1, <2>2
<1>4. Reads(f, (t \o g) \o u, a, c)
  BY <1>3, ConcatReads
<1>5. ASSUME New(f, t, a), New(f, u, b) PROVE New(f, (t \o g) \o u, a)
  <2>1. New(f, t \o g, a)
    BY <1>2, <1>5, ConcatNew
  <2> QED BY <1>3, <1>5, <2>1, ConcatNew
<1> QED BY <1>1, <1>4, <1>5

\* A text that something is joined to repeats no more, if the addition says
\* nothing old but what the text says.
LEMMA JoinRepeats ==
  ASSUME NEW f \in Seq(Char), Gap \notin Char, NEW a \in Nat, a =< Len(f), NEW ov \in Nat,
         NEW prev, NEW t \in Seq(Alpha), NEW u \in Seq(Alpha), Repeats(f, prev, t, a, ov),
         \A q \in 1..Len(u), i \in 1..a : u[q] = f[i] => \E r \in 1..Len(t) : t[r] = f[i]
  PROVE  Repeats(f, prev, Join(t, u), a, ov)
<1> DEFINE z == Join(t, u)
<1>1. PICK k \in 0..ov :
        /\ k =< Len(t) /\ k =< Len(prev)
        /\ \A q \in 1..k : t[q] = prev[Len(prev) - k + q]
        /\ \A q \in 1..Len(t), i \in 1..a : t[q] = f[i] => \E r \in 1..k : t[r] = f[i]
  BY DEF Repeats
<1>2. /\ Len(z) \in Nat /\ Len(t) \in Nat /\ Len(u) \in Nat /\ Len(t) + Len(u) =< Len(z)
      /\ \A q \in 1..Len(t) : z[q] = t[q]
      /\ \A q \in 1..Len(z) :
           \/ q \in 1..Len(t) /\ z[q] = t[q]
           \/ z[q] = Gap
           \/ /\ q - (Len(z) - Len(u)) \in 1..Len(u)
              /\ z[q] = u[q - (Len(z) - Len(u))]
  BY JoinFacts
<1> HIDE DEF z
<1>3. k =< Len(z) /\ \A q \in 1..k : q \in 1..Len(t) /\ z[q] = t[q]
  BY <1>1, <1>2
<1>4. ASSUME NEW q \in 1..Len(z), NEW i \in 1..a, z[q] = f[i]
      PROVE  \E r \in 1..k : z[r] = f[i]
  <2>1. f[i] # Gap
    OBVIOUS
  <2>2. \E x \in 1..Len(t) : t[x] = f[i]
    BY <1>2, <1>4, <2>1
  <2>3. PICK r \in 1..k : t[r] = f[i]
    BY <1>1, <2>2
  <2> QED BY <1>3, <2>3
<1>5. \A q \in 1..k : z[q] = prev[Len(prev) - k + q]
  BY <1>1, <1>3
<1>6. Repeats(f, prev, z, a, ov)
  BY <1>1, <1>3, <1>4, <1>5 DEF Repeats
<1> QED BY <1>6 DEF z

\* A buffer's end, for the next one.
LEMMA SuffixFacts ==
  ASSUME NEW prev \in Seq(Alpha), NEW ov \in Nat
  PROVE  LET h == Stripped(Suffix(prev, ov))
         IN  /\ h \in Seq(Alpha) /\ Len(h) \in 0..ov /\ Len(h) =< Len(prev)
             /\ \A q \in 1..Len(h) : h[q] = prev[Len(prev) - Len(h) + q]
<1> DEFINE n == Len(prev)
           x == IF n > ov THEN n - ov + 1 ELSE 1
           s == SubSeq(prev, x, n)
           I == {i \in 1..Len(s) : s[i] \notin Blank}
           h == Stripped(s)
<1>1. n \in Nat /\ x \in 1..(n + 1)
  OBVIOUS
<1>2. /\ s \in Seq(Alpha) /\ Len(s) = n - x + 1 /\ Len(s) \in 0..ov
      /\ \A q \in 1..Len(s) : s[q] = prev[x - 1 + q]
  <2>1. n - x + 1 \in 0..ov /\ x \in Int /\ n \in Int
    BY <1>1
  <2>2. \A i \in x..n : prev[i] \in Alpha
    BY <1>1
  <2> HIDE DEF x
  <2>3. /\ s \in Seq(Alpha) /\ Len(s) = IF x =< n THEN n - x + 1 ELSE 0
        /\ \A q \in 1..(n - x + 1) : s[q] = prev[x + q - 1]
    BY <2>1, <2>2, SubSeqProperties
  <2> HIDE DEF s, n
  <2>4. Len(s) = n - x + 1 /\ Len(s) \in 0..ov
    BY <1>1, <2>1, <2>3
  <2>5. ASSUME NEW q \in 1..Len(s) PROVE s[q] = prev[x - 1 + q]
    <3>1. q \in 1..(n - x + 1) /\ x + q - 1 = x - 1 + q
      BY <2>1, <2>4
    <3> QED BY <3>1, <2>3
  <2> QED BY <2>3, <2>4, <2>5
<1>3. s = Suffix(prev, ov)
  BY DEF Suffix
<1> HIDE DEF x, s
<1>4. CASE I = {}
  <2>1. h = <<>>
    BY <1>4 DEF Stripped
  <2> QED BY <1>1, <1>3, <2>1
<1>5. CASE I # {}
  <2> DEFINE m == CHOOSE i \in I : \A j \in I : i =< j
  <2>1. m \in I
    <3>1. I \in SUBSET Nat
      OBVIOUS
    <3>2. \E i \in I : \A j \in I : i =< j
      BY <1>5, <3>1, Least
    <3> QED BY <3>2
  <2>2. m \in 1..Len(s)
    BY <2>1
  <2>3. h = SubSeq(s, m, Len(s))
    <3>1. h = SubSeq(s, Min(I), Len(s))
      BY <1>5 DEF Stripped
    <3>2. Min(I) = m
      BY DEF Min
    <3> QED BY <3>1, <3>2
  <2> HIDE DEF m, h
  <2>4. /\ h \in Seq(Alpha) /\ Len(h) = Len(s) - m + 1 /\ \A q \in 1..Len(h) : h[q] = s[m - 1 + q]
    BY <1>2, <2>2, <2>3
  <2>5. Len(h) \in 0..ov /\ Len(h) =< n
    BY <1>1, <1>2, <2>2, <2>4
  <2>6. ASSUME NEW q \in 1..Len(h) PROVE h[q] = prev[n - Len(h) + q]
    <3>1. m - 1 + q \in 1..Len(s) /\ x - 1 + (m - 1 + q) = n - Len(h) + q
      BY <1>1, <1>2, <2>2, <2>4
    <3> QED BY <3>1, <2>4, <1>2
  <2> QED BY <1>3, <2>4, <2>5, <2>6 DEF h
<1> QED BY <1>4, <1>5

-------------------------------------------------------------------------------
\* The texts, one after the other, read f from `from' to `to'.
Chain(f, texts, from, to, ov) ==
  \E c \in [0..Len(texts) -> 0..Len(f)] :
    /\ c[0] = from /\ c[Len(texts)] = to
    /\ \A j \in 1..Len(texts) :
         /\ Reads(f, texts[j], c[j - 1], c[j])
         /\ j = 1 => New(f, texts[1], from)
         /\ j > 1 => Repeats(f, texts[j - 1], texts[j], c[j - 1], ov)

\* The same, and each text says what is new alone.
Tiled(f, texts, from, to) ==
  \E c \in [0..Len(texts) -> 0..Len(f)] :
    /\ c[0] = from /\ c[Len(texts)] = to
    /\ \A j \in 1..Len(texts) : Reads(f, texts[j], c[j - 1], c[j]) /\ New(f, texts[j], c[j - 1])

\* A text that begins with the end of the one before.
LEMMA NextReads ==
  ASSUME NEW f \in Seq(Char), IsInjective(f), Gap \notin Char,
         NEW a \in Nat, NEW b \in Nat, NEW c \in Nat, a =< b, b =< c, c =< Len(f), NEW ov \in Nat,
         NEW t \in Seq(Alpha), NEW u \in Seq(Alpha),
         Reads(f, t, a, b), Reads(f, u, b, c), New(f, u, b)
  PROVE  LET z == Join(Stripped(Suffix(t, ov)), u)
         IN  z \in Seq(Alpha) /\ Reads(f, z, b, c) /\ Repeats(f, t, z, b, ov)
<1> DEFINE h == Stripped(Suffix(t, ov))
           z == Join(h, u)
<1>1. /\ h \in Seq(Alpha) /\ Len(h) \in 0..ov /\ Len(h) =< Len(t)
      /\ \A q \in 1..Len(h) : h[q] = t[Len(t) - Len(h) + q]
  BY SuffixFacts
<1> HIDE DEF h
<1>2. Len(t) \in Nat /\ Len(h) \in Nat
  BY <1>1
<1>3. \A q \in 1..Len(h) : \E r \in 1..Len(t) : h[q] = t[r]
  <2> TAKE q \in 1..Len(h)
  <2>1. Len(t) - Len(h) + q \in 1..Len(t)
    BY <1>1, <1>2
  <2> QED BY <1>1, <2>1
<1>4. Reads(f, h, b, b)
  BY <1>2, <1>3, OldReads
<1>5. Reads(f, z, b, c)
  BY <1>1, <1>4, JoinReads
<1>6. /\ z \in Seq(Alpha) /\ Len(z) \in Nat /\ Len(u) \in Nat /\ Len(h) + Len(u) =< Len(z)
      /\ \A q \in 1..Len(h) : z[q] = h[q]
      /\ \A q \in 1..Len(z) :
           \/ q \in 1..Len(h) /\ z[q] = h[q]
           \/ z[q] = Gap
           \/ /\ q - (Len(z) - Len(u)) \in 1..Len(u)
              /\ z[q] = u[q - (Len(z) - Len(u))]
  BY <1>1, JoinFacts
<1> HIDE DEF z
<1>7. ASSUME NEW q \in 1..Len(z), NEW i \in 1..b, z[q] = f[i]
      PROVE  \E r \in 1..Len(h) : z[r] = f[i]
  <2>1. f[i] # Gap
    OBVIOUS
  <2>2. \A x \in 1..Len(u) : u[x] # f[i]
    BY DEF New
  <2>3. q \in 1..Len(h)
    BY <1>6, <1>7, <2>1, <2>2
  <2> QED BY <1>7, <2>3
<1>8. Len(h) =< Len(z) /\ \A q \in 1..Len(h) : z[q] = t[Len(t) - Len(h) + q]
  BY <1>1, <1>2, <1>6
<1>9. Repeats(f, t, z, b, ov)
  BY <1>1, <1>7, <1>8 DEF Repeats
<1> QED BY <1>5, <1>6, <1>9 DEF z, h

\* A chain of one text.
LEMMA SingleChain ==
  ASSUME NEW f \in Seq(Char), NEW ov, NEW b \in 0..Len(f), NEW c \in 0..Len(f),
         NEW u, Reads(f, u, b, c), New(f, u, b)
  PROVE  Chain(f, <<u>>, b, c, ov)
<1> DEFINE z == <<u>>
<1>1. Len(z) = 1 /\ z[1] = u
  OBVIOUS
<1> HIDE DEF z
<1> DEFINE e == [j \in 0..Len(z) |-> IF j = 0 THEN b ELSE c]
<1>2. e \in [0..Len(z) -> 0..Len(f)] /\ e[0] = b /\ e[Len(z)] = c
  BY <1>1
<1> HIDE DEF e
<1>3. ASSUME NEW j \in 1..Len(z)
      PROVE  /\ Reads(f, z[j], e[j - 1], e[j])
             /\ j = 1 => New(f, z[1], b)
             /\ j > 1 => Repeats(f, z[j - 1], z[j], e[j - 1], ov)
  <2>1. j = 1 /\ j - 1 = 0 /\ j = Len(z)
    BY <1>1
  <2> QED BY <1>1, <1>2, <2>1
<1>4. Chain(f, z, b, c, ov)
  BY <1>2, <1>3 DEF Chain
<1> QED BY <1>4 DEF z

\* A chain of none.
LEMMA EmptyChain ==
  ASSUME NEW f \in Seq(Char), NEW ov, NEW b \in 0..Len(f)
  PROVE  Chain(f, <<>>, b, b, ov)
<1> DEFINE z == <<>>
<1>1. Len(z) = 0
  OBVIOUS
<1> HIDE DEF z
<1> DEFINE e == [j \in 0..Len(z) |-> b]
<1>2. e \in [0..Len(z) -> 0..Len(f)] /\ e[0] = b /\ e[Len(z)] = b
  BY <1>1
<1>3. 1..Len(z) = {}
  BY <1>1
<1> HIDE DEF e
<1>4. Chain(f, z, b, b, ov)
  BY <1>2, <1>3 DEF Chain
<1> QED BY <1>4 DEF z

\* Without an overlap nothing is read twice.
LEMMA ChainTiled ==
  ASSUME NEW f, NEW from, NEW to, NEW texts \in Seq(Seq(Alpha)), Chain(f, texts, from, to, 0)
  PROVE  Tiled(f, texts, from, to)
<1>1. PICK c \in [0..Len(texts) -> 0..Len(f)] :
        /\ c[0] = from /\ c[Len(texts)] = to
        /\ \A j \in 1..Len(texts) :
             /\ Reads(f, texts[j], c[j - 1], c[j])
             /\ j = 1 => New(f, texts[1], from)
             /\ j > 1 => Repeats(f, texts[j - 1], texts[j], c[j - 1], 0)
  BY DEF Chain
<1>2. ASSUME NEW j \in 1..Len(texts) PROVE New(f, texts[j], c[j - 1])
  <2>1. CASE j = 1
    BY <1>1, <2>1
  <2>2. CASE j > 1
    <3>1. Repeats(f, texts[j - 1], texts[j], c[j - 1], 0)
      BY <1>1, <2>2
    <3>2. PICK k \in 0..0 :
             \A q \in 1..Len(texts[j]), i \in 1..c[j - 1] :
               texts[j][q] = f[i] => \E r \in 1..k : texts[j][r] = f[i]
      BY <3>1 DEF Repeats
    <3>3. 1..k = {}
      OBVIOUS
    <3> QED BY <3>2, <3>3 DEF New
  <2> QED BY <2>1, <2>2
<1> QED BY <1>1, <1>2 DEF Tiled

\* Put prolongs a chain by a unit.
LEMMA PutChain ==
  ASSUME NEW f \in Seq(Char), IsInjective(f), Gap \notin Char, NEW ov \in Nat,
         NEW from \in 0..Len(f), NEW b \in 0..Len(f), NEW c \in 0..Len(f),
         NEW texts \in Seq(Seq(Alpha)), Chain(f, texts, from, b, ov),
         NEW u \in Seq(Alpha), Reads(f, u, b, c), New(f, u, b)
  PROVE  Put(texts, u, ov) \in Seq(Seq(Alpha)) /\ Chain(f, Put(texts, u, ov), from, c, ov)
<1> DEFINE n == Len(texts)
<1>1. PICK d \in [0..n -> 0..Len(f)] :
        /\ d[0] = from /\ d[n] = b
        /\ \A j \in 1..n :
             /\ Reads(f, texts[j], d[j - 1], d[j])
             /\ j = 1 => New(f, texts[1], from)
             /\ j > 1 => Repeats(f, texts[j - 1], texts[j], d[j - 1], ov)
  BY DEF Chain
<1>2. n \in Nat /\ Len(f) \in Nat /\ b =< c
  BY DEF Reads
<1>3. CASE n = 0
  <2>1. Put(texts, u, ov) = <<u>>
    BY <1>3 DEF Put
  <2>2. <<u>> \in Seq(Seq(Alpha)) /\ from = b
    BY <1>1, <1>3
  <2> QED BY <2>1, <2>2, SingleChain
<1>4. CASE n # 0
  <2> DEFINE last == texts[n]
  <2>0. n \in 1..n /\ n \in 0..n /\ n - 1 \in 0..n /\ n - 1 # n /\ n + 1 \in Nat
    BY <1>2, <1>4
  <2>1. last \in Seq(Alpha) /\ d[n - 1] \in 0..Len(f) /\ Reads(f, last, d[n - 1], b)
    <3>1. last \in Seq(Alpha)
      BY <2>0
    <3>2. d[n - 1] \in 0..Len(f) /\ Reads(f, last, d[n - 1], d[n])
      BY <1>1, <2>0
    <3> QED BY <1>1, <3>1, <3>2
  <2>2. d[n - 1] \in Nat /\ b \in Nat /\ c \in Nat /\ d[n - 1] =< b /\ c =< Len(f)
    BY <1>2, <2>1 DEF Reads
  <2>3. CASE Fits(last, u)
    <3> DEFINE t == Join(last, u)
               z == [texts EXCEPT ![n] = t]
               e == [d EXCEPT ![n] = c]
    <3>1. Put(texts, u, ov) = z
      BY <1>4, <2>3 DEF Put
    <3>2. t \in Seq(Alpha)
      BY <2>1, JoinFacts
    <3>3. Reads(f, t, d[n - 1], c) /\ (New(f, last, d[n - 1]) => New(f, t, d[n - 1]))
      <4>1. New(f, u, b) 
        OBVIOUS
      <4> QED BY <1>2, <2>1, <2>2, JoinReads
    <3>4. ASSUME NEW prev, Repeats(f, prev, last, d[n - 1], ov) PROVE Repeats(f, prev, t, d[n - 1], ov)
      <4>1. \A q \in 1..Len(u), i \in 1..d[n - 1] : u[q] # f[i]
        <5>1. \A i \in 1..d[n - 1] : i \in 1..b
          BY <2>2
        <5>2. \A q \in 1..Len(u), i \in 1..b : u[q] # f[i]
          BY DEF New
        <5> QED BY <5>1, <5>2
      <4>2. d[n - 1] =< Len(f)
        BY <2>1
      <4> QED BY <3>4, <2>1, <2>2, <4>1, <4>2, JoinRepeats
    <3> HIDE DEF t
    <3>5. z \in Seq(Seq(Alpha)) /\ Len(z) = n /\ z[n] = t /\ \A j \in 1..n : j # n => z[j] = texts[j]
      BY <2>0, <3>2
    <3>6. /\ e \in [0..n -> 0..Len(f)] /\ e[n] = c
          /\ \A j \in 0..n : j # n => e[j] = d[j]
      BY <2>0
    <3> HIDE DEF z, e, last, n
    <3>7. e[0] = from
      BY <1>1, <1>2, <1>4, <3>6
    <3>8. ASSUME NEW j \in 1..n
          PROVE  /\ Reads(f, z[j], e[j - 1], e[j])
                 /\ j = 1 => New(f, z[1], from)
                 /\ j > 1 => Repeats(f, z[j - 1], z[j], e[j - 1], ov)
      <4>1. j - 1 \in 0..n /\ j - 1 # n /\ e[j - 1] = d[j - 1] /\ (j > 1 => j - 1 \in 1..n)
        BY <1>2, <3>6
      <4>2. CASE j = n
        <5>1. z[j] = t /\ e[j] = c
          BY <4>2, <3>5, <3>6
        <5>2. j > 1 => z[j - 1] = texts[j - 1]
          BY <4>1, <3>5
        <5>3. j = 1 => d[n - 1] = from /\ New(f, last, from)
          BY <4>2, <1>1, <2>0 DEF last
        <5>4. j > 1 => Repeats(f, texts[j - 1], last, d[n - 1], ov)
          BY <4>2, <1>1, <2>0 DEF last
        <5> QED BY <4>1, <4>2, <5>1, <5>2, <5>3, <5>4, <3>3, <3>4
      <4>3. CASE j # n
        <5>1. z[j] = texts[j] /\ e[j] = d[j]
          BY <4>3, <3>5, <3>6, <1>2
        <5>2. j > 1 => z[j - 1] = texts[j - 1]
          BY <4>1, <3>5
        <5> QED BY <4>1, <4>3, <5>1, <5>2, <1>1
      <4> QED BY <4>2, <4>3
    <3>9. Chain(f, z, from, c, ov)
      BY <3>5, <3>6, <3>7, <3>8 DEF Chain
    <3> QED BY <3>1, <3>5, <3>9
  <2>4. CASE ~Fits(last, u)
    <3> DEFINE t == Join(Stripped(Suffix(last, ov)), u)
               z == Append(texts, t)
               e == [j \in 0..(n + 1) |-> IF j = n + 1 THEN c ELSE d[j]]
    <3>1. Put(texts, u, ov) = z
      BY <1>4, <2>4 DEF Put
    <3>2. t \in Seq(Alpha) /\ Reads(f, t, b, c) /\ Repeats(f, last, t, b, ov)
      BY <1>2, <2>1, <2>2, NextReads
    <3> HIDE DEF t
    <3>5. /\ z \in Seq(Seq(Alpha)) /\ Len(z) = n + 1 /\ z[n + 1] = t
          /\ \A j \in 1..n : z[j] = texts[j]
      BY <3>2
    <3>6. /\ e \in [0..(n + 1) -> 0..Len(f)] /\ e[n + 1] = c
          /\ \A j \in 0..n : e[j] = d[j]
      BY <1>2
    <3> HIDE DEF z, e, n, last
    <3>7. e[0] = from
      BY <1>1, <1>2, <3>6
    <3>8. ASSUME NEW j \in 1..(n + 1)
          PROVE  /\ Reads(f, z[j], e[j - 1], e[j])
                 /\ j = 1 => New(f, z[1], from)
                 /\ j > 1 => Repeats(f, z[j - 1], z[j], e[j - 1], ov)
      <4>1. j - 1 \in 0..n /\ e[j - 1] = d[j - 1] /\ (j > 1 => j - 1 \in 1..n)
        BY <1>2, <3>6
      <4>2. CASE j = n + 1
        <5>1. z[j] = t /\ e[j] = c /\ j - 1 = n /\ j > 1 /\ z[n] = last /\ e[n] = b
          BY <4>2, <3>5, <3>6, <2>0, <1>1, <1>2 DEF last
        <5> QED BY <5>1, <3>2, <4>1
      <4>3. CASE j # n + 1
        <5>1. j \in 1..n /\ z[j] = texts[j] /\ e[j] = d[j]
          BY <4>3, <3>5, <3>6, <1>2
        <5>2. j > 1 => z[j - 1] = texts[j - 1]
          BY <4>1, <3>5
        <5> QED BY <4>1, <4>3, <5>1, <5>2, <1>1
      <4> QED BY <4>2, <4>3
    <3>9. Chain(f, z, from, c, ov)
      BY <3>5, <3>6, <3>7, <3>8 DEF Chain
    <3> QED BY <3>1, <3>5, <3>9
  <2> QED BY <2>3, <2>4
<1> QED BY <1>3, <1>4

\* The buffers read what the units read, and each repeats the end of the one before.
LEMMA PackChain ==
  ASSUME NEW f \in Seq(Char), IsInjective(f), Gap \notin Char, NEW ov \in Nat,
         NEW from \in 0..Len(f), NEW to \in 0..Len(f),
         NEW units \in Seq(Seq(Alpha)), Tiled(f, units, from, to)
  PROVE  Pack(units, ov) \in Seq(Seq(Alpha)) /\ Chain(f, Pack(units, ov), from, to, ov)
<1> DEFINE n == Len(units)
<1>1. n \in Nat
  OBVIOUS
<1>2. PICK d \in [0..n -> 0..Len(f)] :
        /\ d[0] = from /\ d[n] = to
        /\ \A j \in 1..n : Reads(f, units[j], d[j - 1], d[j]) /\ New(f, units[j], d[j - 1])
  BY DEF Tiled
<1>3. PICK g : /\ g = [i \in 0..n |-> IF i = 0 THEN <<>> ELSE Put(g[i - 1], units[i], ov)]
               /\ Pack(units, ov) = g[n]
  BY <1>1, PackedExists
<1> DEFINE P == {k \in 0..n : g[k] \in Seq(Seq(Alpha)) /\ Chain(f, g[k], from, d[k], ov)}
<1>4. 0 \in P
  <2>1. g[0] = <<>> /\ 0 \in 0..n
    BY <1>1, <1>3
  <2>2. <<>> \in Seq(Seq(Alpha)) /\ Chain(f, <<>>, from, from, ov)
    BY EmptyChain
  <2> QED BY <1>2, <2>1, <2>2
<1>5. ASSUME NEW k \in 0..(n - 1), k \in P PROVE k + 1 \in P
  <2>1. k + 1 \in 1..n /\ (k + 1) - 1 = k /\ k \in 0..n /\ k + 1 \in 0..n
    BY <1>1
  <2>2. g[k + 1] = Put(g[k], units[k + 1], ov)
    BY <1>3, <2>1
  <2>3. units[k + 1] \in Seq(Alpha) /\ d[k] \in 0..Len(f) /\ d[k + 1] \in 0..Len(f)
    <3>1. units[k + 1] \in Seq(Alpha)
      BY <2>1
    <3> QED BY <2>1, <3>1
  <2>4. Reads(f, units[k + 1], d[k], d[k + 1]) /\ New(f, units[k + 1], d[k])
    BY <1>2, <2>1
  <2>5. g[k] \in Seq(Seq(Alpha)) /\ Chain(f, g[k], from, d[k], ov)
    BY <1>5
  <2>6. g[k + 1] \in Seq(Seq(Alpha)) /\ Chain(f, g[k + 1], from, d[k + 1], ov)
    <3> DEFINE x == g[k]
               u == units[k + 1]
               b == d[k]
               c == d[k + 1]
    <3> HIDE DEF x, u, b, c
    <3>1. Put(x, u, ov) \in Seq(Seq(Alpha)) /\ Chain(f, Put(x, u, ov), from, c, ov)
      BY <2>3, <2>4, <2>5, PutChain DEF x, u, b, c
    <3> QED BY <2>2, <3>1 DEF x, u, c
  <2> QED BY <2>1, <2>6
<1>6. n \in P
  <2> HIDE DEF P
  <2>1. \A i \in 0..n : i \in P
    BY <1>1, <1>4, <1>5, UpTo
  <2>2. n \in 0..n
    BY <1>1
  <2> QED BY <2>1, <2>2
<1> QED BY <1>2, <1>3, <1>6

\* The place of x in two sequences of tiles.
LEMMA TiledConcat ==
  ASSUME NEW f \in Seq(Char), NEW a \in 0..Len(f), NEW b \in 0..Len(f), NEW c \in 0..Len(f),
         NEW x \in Seq(Seq(Alpha)), NEW y \in Seq(Seq(Alpha)), Tiled(f, x, a, b), Tiled(f, y, b, c)
  PROVE  x \o y \in Seq(Seq(Alpha)) /\ Tiled(f, x \o y, a, c)
<1> DEFINE m == Len(x)
           n == Len(y)
           z == x \o y
<1>1. PICK d \in [0..m -> 0..Len(f)] :
        /\ d[0] = a /\ d[m] = b
        /\ \A j \in 1..m : Reads(f, x[j], d[j - 1], d[j]) /\ New(f, x[j], d[j - 1])
  BY DEF Tiled
<1>2. PICK e \in [0..n -> 0..Len(f)] :
        /\ e[0] = b /\ e[n] = c
        /\ \A j \in 1..n : Reads(f, y[j], e[j - 1], e[j]) /\ New(f, y[j], e[j - 1])
  BY DEF Tiled
<1>3. /\ z \in Seq(Seq(Alpha)) /\ Len(z) = m + n /\ m \in Nat /\ n \in Nat
      /\ \A i \in 1..(m + n) :
           \/ i \in 1..m /\ z[i] = x[i]
           \/ i > m /\ i - m \in 1..n /\ z[i] = y[i - m]
  BY ConcatFacts
<1> DEFINE h == [j \in 0..(m + n) |-> IF j =< m THEN d[j] ELSE e[j - m]]
<1>4. /\ h \in [0..(m + n) -> 0..Len(f)]
      /\ \A j \in 0..m : h[j] = d[j]
      /\ \A j \in m..(m + n) : h[j] = e[j - m]
  <2>1. ASSUME NEW j \in 0..(m + n) PROVE (IF j =< m THEN d[j] ELSE e[j - m]) \in 0..Len(f)
    <3>1. CASE j =< m
      <4>1. j \in 0..m
        BY <1>3, <3>1
      <4> QED BY <3>1, <4>1
    <3>2. CASE ~(j =< m)
      <4>1. j - m \in 0..n
        BY <1>3, <3>2
      <4> QED BY <3>2, <4>1
    <3> QED BY <3>1, <3>2
  <2>2. \A j \in 0..m : h[j] = d[j]
    BY <1>3
  <2>3. ASSUME NEW j \in m..(m + n) PROVE h[j] = e[j - m]
    <3>1. CASE j = m
      <4>1. j - m = 0 /\ j \in 0..(m + n) /\ j =< m
        BY <1>3, <3>1
      <4> QED BY <4>1, <3>1, <1>1, <1>2
    <3>2. CASE j # m
      BY <3>2, <1>3
    <3> QED BY <3>1, <3>2
  <2> QED BY <2>1, <2>2, <2>3
<1> HIDE DEF h, m, n, z
<1>5. h[0] = a /\ h[m + n] = c
  <2>1. 0 \in 0..m /\ m + n \in m..(m + n) /\ (m + n) - m = n
    BY <1>3
  <2> QED BY <1>1, <1>2, <1>4, <2>1
<1>6. ASSUME NEW j \in 1..(m + n)
      PROVE  Reads(f, z[j], h[j - 1], h[j]) /\ New(f, z[j], h[j - 1])
  <2>1. CASE j \in 1..m /\ z[j] = x[j]
    <3>1. j \in 0..m /\ j - 1 \in 0..m
      BY <1>3, <2>1
    <3> QED BY <1>1, <1>4, <2>1, <3>1
  <2>2. CASE j > m /\ j - m \in 1..n /\ z[j] = y[j - m]
    <3>0. m \in Nat /\ n \in Nat /\ j \in Nat /\ j > m /\ j =< m + n
      BY <1>3, <2>2
    <3>1. j \in m..(m + n) /\ j - 1 \in m..(m + n) /\ (j - 1) - m = (j - m) - 1
      BY <3>0
    <3> QED BY <1>2, <1>4, <2>2, <3>1
  <2> QED BY <1>3, <2>1, <2>2
<1>7. Tiled(f, z, a, c)
  BY <1>3, <1>4, <1>5, <1>6 DEF Tiled
<1> QED BY <1>3, <1>7 DEF z

\* Tiles of tiles.
LEMMA TiledFlat ==
  ASSUME NEW f \in Seq(Char), Gap \notin Char,
         NEW seqs \in Seq(Seq(Seq(Alpha))), NEW o \in [0..Len(seqs) -> 0..Len(f)],
         \A i \in 1..Len(seqs) : Tiled(f, seqs[i], o[i - 1], o[i])
  PROVE  FlattenSeq(seqs) \in Seq(Seq(Alpha)) /\ Tiled(f, FlattenSeq(seqs), o[0], o[Len(seqs)])
<1> DEFINE n == Len(seqs)
<1>1. n \in Nat /\ \A i \in 1..n : seqs[i] \in Seq(Seq(Alpha))
  OBVIOUS
<1>2. PICK F \in [0..n -> Seq(Seq(Alpha))] :
        F[0] = <<>> /\ (\A i \in 1..n : F[i] = F[i - 1] \o seqs[i]) /\ FlattenSeq(seqs) = F[n]
  BY FlatSteps
<1> DEFINE P == {k \in 0..n : Tiled(f, F[k], o[0], o[k])}
<1>3. 0 \in P
  <2>1. 0 \in 0..n
    BY <1>1
  <2>2. o[0] \in 0..Len(f) /\ <<>> \in Seq(Seq(Alpha))
    BY <2>1
  <2>3. Tiled(f, <<>>, o[0], o[0])
    BY <2>2, EmptyChain, ChainTiled
  <2> QED BY <1>2, <2>1, <2>3
<1>4. ASSUME NEW k \in 0..(n - 1), k \in P PROVE k + 1 \in P
  <2>1. k + 1 \in 1..n /\ (k + 1) - 1 = k /\ k \in 0..n /\ k + 1 \in 0..n /\ 0 \in 0..n
    BY <1>1
  <2>2. F[k + 1] = F[k] \o seqs[k + 1] /\ Tiled(f, seqs[k + 1], o[k], o[k + 1])
    BY <1>2, <2>1
  <2>3. /\ F[k] \in Seq(Seq(Alpha)) /\ seqs[k + 1] \in Seq(Seq(Alpha))
        /\ o[0] \in 0..Len(f) /\ o[k] \in 0..Len(f) /\ o[k + 1] \in 0..Len(f)
    BY <1>1, <2>1
  <2>4. Tiled(f, F[k], o[0], o[k])
    BY <1>4
  <2>5. Tiled(f, F[k] \o seqs[k + 1], o[0], o[k + 1])
    BY <2>2, <2>3, <2>4, TiledConcat
  <2> QED BY <2>1, <2>2, <2>5
<1>5. n \in P
  <2> HIDE DEF P
  <2>1. \A i \in 0..n : i \in P
    BY <1>1, <1>3, <1>4, UpTo
  <2>2. n \in 0..n
    BY <1>1
  <2> QED BY <2>1, <2>2
<1>6. F[n] \in Seq(Seq(Alpha))
  BY <1>1
<1> QED BY <1>2, <1>5, <1>6

\* Stretches of f, one after the other.
LEMMA StretchesTiled ==
  ASSUME NEW f \in Seq(Char), IsInjective(f), NEW p \in Seq(Seq(Char)), NEW a \in Nat,
         a + Len(FlattenSeq(p)) =< Len(f),
         \A q \in 1..Len(FlattenSeq(p)) : f[a + q] = FlattenSeq(p)[q]
  PROVE  p \in Seq(Seq(Alpha)) /\ Tiled(f, p, a, a + Len(FlattenSeq(p)))
<1> DEFINE n == Len(p)
           x == FlattenSeq(p)
<1>1. x \in Seq(Char)
  BY FlatPlaces
<1>2. PICK o \in [0..n -> 0..Len(x)] :
        /\ o[0] = 0 /\ o[n] = Len(x)
        /\ \A i \in 1..n :
             /\ o[i] = o[i - 1] + Len(p[i])
             /\ \A q \in 1..Len(p[i]) : x[o[i - 1] + q] = p[i][q]
  BY FlatPlaces
<1>3. /\ n \in Nat /\ Len(x) \in Nat /\ Len(f) \in Nat /\ p \in Seq(Seq(Alpha))
      /\ \A i \in 1..n : p[i] \in Seq(Char)
  BY <1>1 DEF Alpha
<1>4. a + Len(x) =< Len(f) /\ \A q \in 1..Len(x) : f[a + q] = x[q]
  OBVIOUS
<1> HIDE DEF n, x
<1> DEFINE c == [i \in 0..n |-> a + o[i]]
<1>5. c \in [0..n -> 0..Len(f)] /\ \A i \in 0..n : c[i] = a + o[i]
  <2>1. \A i \in 0..n : a + o[i] \in 0..Len(f)
    BY <1>3, <1>4
  <2> QED BY <2>1
<1> HIDE DEF c
<1>6. c[0] = a /\ c[n] = a + Len(x)
  <2>1. 0 \in 0..n /\ n \in 0..n /\ a + 0 = a
    BY <1>3
  <2> QED BY <1>2, <1>5, <2>1
<1>7. ASSUME NEW i \in 1..n PROVE Reads(f, p[i], c[i - 1], c[i]) /\ New(f, p[i], c[i - 1])
  <2>1. i \in 0..n /\ i - 1 \in 0..n
    BY <1>3
  <2> DEFINE u == p[i]
             b == c[i - 1]
  <2>2. /\ u \in Seq(Char) /\ Len(u) \in Nat /\ o[i] \in 0..Len(x) /\ o[i - 1] \in 0..Len(x)
        /\ b = a + o[i - 1] /\ c[i] = a + o[i] /\ o[i] = o[i - 1] + Len(u)
    <3>1. u \in Seq(Char) /\ Len(u) \in Nat
      BY <1>3
    <3>2. o[i] \in 0..Len(x) /\ o[i - 1] \in 0..Len(x)
      BY <2>1
    <3>3. b = a + o[i - 1] /\ c[i] = a + o[i]
      BY <1>5, <2>1
    <3>4. o[i] = o[i - 1] + Len(u)
      BY <1>2
    <3> QED BY <3>1, <3>2, <3>3, <3>4
  <2>3. \A q \in 1..Len(u) : x[o[i - 1] + q] = u[q]
    BY <1>2
  <2> HIDE DEF u, b
  <2>4. b \in Nat /\ c[i] = b + Len(u) /\ b + Len(u) =< Len(f)
    BY <1>3, <1>4, <2>2, SMTT(30)
  <2>5. ASSUME NEW q \in 1..Len(u) PROVE u[q] = f[b + q]
    <3>0. o[i - 1] \in Nat /\ o[i - 1] + Len(u) =< Len(x) /\ q \in Nat /\ q >= 1 /\ q =< Len(u)
      BY <1>3, <2>2
    <3> DEFINE w == o[i - 1]
    <3>2. w \in Nat /\ w + Len(u) =< Len(x) /\ Len(u) \in Nat /\ Len(x) \in Nat /\ b = a + w
      BY <1>3, <2>2, <3>0
    <3> HIDE DEF w
    <3>3. w + q \in 1..Len(x) /\ a + (w + q) = b + q
      BY <3>0, <3>2
    <3>1. o[i - 1] + q \in 1..Len(x) /\ a + (o[i - 1] + q) = b + q
      BY <3>3 DEF w
    <3> QED BY <1>4, <2>3, <3>1
  <2>6. Reads(f, u, b, b + Len(u)) /\ New(f, u, b)
    BY <2>2, <2>4, <2>5, StretchReads
  <2> QED BY <2>4, <2>6 DEF u, b
<1>8. Tiled(f, p, a, a + Len(x))
  BY <1>5, <1>6, <1>7 DEF Tiled, n
<1> QED BY <1>3, <1>8 DEF x

\* Texts with white space in between read what they read one after the other.
LEMMA SpacedReads ==
  ASSUME NEW f \in Seq(Char), IsInjective(f), Gap \notin Char,
         NEW from \in 0..Len(f), NEW to \in 0..Len(f), NEW space \in Seq({Gap}),
         NEW texts \in Seq(Seq(Alpha)), Tiled(f, texts, from, to)
  PROVE  /\ Spaced(texts, space) \in Seq(Alpha)
         /\ Reads(f, Spaced(texts, space), from, to) /\ New(f, Spaced(texts, space), from)
<1> DEFINE n == Len(texts)
           seqs == [i \in DOMAIN texts |-> IF i = 1 THEN texts[i] ELSE space \o texts[i]]
<1>1. n \in Nat /\ Len(f) \in Nat /\ DOMAIN texts = 1..n /\ \A i \in 1..n : texts[i] \in Seq(Alpha)
  OBVIOUS
<1>2. PICK c \in [0..n -> 0..Len(f)] :
        /\ c[0] = from /\ c[n] = to
        /\ \A j \in 1..n : Reads(f, texts[j], c[j - 1], c[j]) /\ New(f, texts[j], c[j - 1])
  BY DEF Tiled
<1>3. ASSUME NEW i \in 1..n
      PROVE  /\ seqs[i] \in Seq(Alpha)
             /\ Reads(f, seqs[i], c[i - 1], c[i]) /\ New(f, seqs[i], c[i - 1])
  <2>1. CASE i = 1
    <3>1. seqs[i] = texts[i]
      BY <1>1, <2>1
    <3> QED BY <3>1, <1>1, <1>2
  <2>2. CASE i # 1
    <3>1. seqs[i] = space \o texts[i]
      BY <1>1, <2>2
    <3>2. i - 1 \in 0..n /\ i \in 0..n
      BY <1>1
    <3> DEFINE u == texts[i]
               a == c[i - 1]
               b == c[i]
    <3>3. u \in Seq(Alpha) /\ a \in 0..Len(f) /\ b \in 0..Len(f) /\ Reads(f, u, a, b) /\ New(f, u, a)
      BY <1>1, <1>2, <3>2
    <3> HIDE DEF u, a, b
    <3>4. a \in Nat /\ b \in Nat /\ a =< b /\ b =< Len(f) /\ a =< Len(f)
      BY <1>1, <3>3 DEF Reads
    <3>5. space \in Seq(Alpha) /\ Reads(f, space, a, a) /\ New(f, space, a)
      BY <3>4, GapReads
    <3>6. space \o u \in Seq(Alpha)
      BY <3>3, <3>5, ConcatFacts
    <3>7. Reads(f, space \o u, a, b)
      BY <3>3, <3>4, <3>5, ConcatReads
    <3>8. New(f, space \o u, a)
      BY <3>3, <3>4, <3>5, ConcatNew
    <3> QED BY <3>1, <3>6, <3>7, <3>8 DEF u, a, b
  <2> QED BY <2>1, <2>2
<1>4. seqs \in Seq(Seq(Alpha)) /\ Len(seqs) = n
  <2>1. seqs \in [1..n -> Seq(Alpha)]
    BY <1>1, <1>3
  <2> QED BY <1>1, <2>1
<1>5. Spaced(texts, space) = FlattenSeq(seqs)
  BY DEF Spaced
<1> HIDE DEF seqs, n
<1>6. PICK F \in [0..n -> Seq(Alpha)] :
        F[0] = <<>> /\ (\A i \in 1..n : F[i] = F[i - 1] \o seqs[i]) /\ FlattenSeq(seqs) = F[n]
  BY <1>4, FlatSteps
<1> DEFINE P == {k \in 0..n : Reads(f, F[k], from, c[k]) /\ New(f, F[k], from)}
<1>7. 0 \in P
  <2>1. 0 \in 0..n /\ <<>> \in Seq({Gap}) /\ from \in Nat /\ from =< Len(f)
    BY <1>1
  <2>2. Reads(f, <<>>, from, from) /\ New(f, <<>>, from)
    BY <2>1, GapReads
  <2> QED BY <1>2, <1>6, <2>1, <2>2
<1>8. ASSUME NEW k \in 0..(n - 1), k \in P PROVE k + 1 \in P
  <2>1. k + 1 \in 1..n /\ (k + 1) - 1 = k /\ k \in 0..n /\ k + 1 \in 0..n
    BY <1>1
  <2> DEFINE t == F[k]
             u == seqs[k + 1]
             b == c[k]
             d == c[k + 1]
  <2>2. /\ t \in Seq(Alpha) /\ u \in Seq(Alpha) /\ F[k + 1] = t \o u
        /\ b \in 0..Len(f) /\ d \in 0..Len(f)
        /\ Reads(f, u, b, d) /\ New(f, u, b) /\ Reads(f, t, from, b) /\ New(f, t, from)
    BY <1>3, <1>6, <1>8, <2>1
  <2> HIDE DEF t, u, b, d
  <2>3. from \in Nat /\ b \in Nat /\ d \in Nat /\ from =< b /\ b =< d /\ d =< Len(f)
    BY <1>1, <2>2 DEF Reads
  <2>4. Reads(f, t \o u, from, d)
    BY <2>2, <2>3, ConcatReads
  <2>5. New(f, t \o u, from)
    BY <2>2, <2>3, ConcatNew
  <2> QED BY <2>1, <2>2, <2>4, <2>5 DEF d
<1>9. n \in P
  <2> HIDE DEF P
  <2>1. \A i \in 0..n : i \in P
    BY <1>1, <1>7, <1>8, UpTo
  <2>2. n \in 0..n
    BY <1>1
  <2> QED BY <2>1, <2>2
<1>10. F[n] \in Seq(Alpha)
  BY <1>1
<1> QED BY <1>2, <1>5, <1>6, <1>9, <1>10

-------------------------------------------------------------------------------
\* t is u with an end of an earlier text before it.
Carries(t, u, ov) ==
  /\ Len(t) =< Len(u) + ov + 1
  /\ \A q \in 1..Len(u) : \E r \in 1..Len(t) : t[r] = u[q]
  /\ ov = 0 => t = u

\* No longer than TargetChars, but for a unit that is, and the overlap before it.
Bounded(t, U, ov) == Len(t) =< TargetChars \/ \E u \in U : Carries(t, u, ov)

\* Put keeps texts bounded.
LEMMA PutBounded ==
  ASSUME NEW U \in SUBSET Seq(Alpha), NEW ov \in Nat, NEW u \in U, TargetChars \in Nat,
         NEW texts \in Seq(Seq(Alpha)), \A j \in 1..Len(texts) : Bounded(texts[j], U, ov)
  PROVE  /\ Put(texts, u, ov) \in Seq(Seq(Alpha))
         /\ \A j \in 1..Len(Put(texts, u, ov)) : Bounded(Put(texts, u, ov)[j], U, ov)
<1> DEFINE n == Len(texts)
<1>1. n \in Nat /\ u \in Seq(Alpha) /\ Len(u) \in Nat
  OBVIOUS
<1>2. CASE n = 0
  <2>1. Put(texts, u, ov) = <<u>>
    BY <1>2 DEF Put
  <2>2. Carries(u, u, ov)
    BY <1>1 DEF Carries
  <2>3. Bounded(u, U, ov)
    BY <2>2 DEF Bounded
  <2> QED BY <1>1, <2>1, <2>3
<1>3. CASE n # 0
  <2> DEFINE last == texts[n]
  <2>1. n \in 1..n /\ last \in Seq(Alpha) /\ Len(last) \in Nat
    BY <1>1, <1>3
  <2>2. CASE Fits(last, u)
    <3> DEFINE t == Join(last, u)
               z == [texts EXCEPT ![n] = t]
    <3>1. Put(texts, u, ov) = z
      BY <1>3, <2>2 DEF Put
    <3>2. t \in Seq(Alpha) /\ Len(t) \in Nat /\ Len(t) =< Len(last) + Len(u) + 1
      BY <1>1, <2>1, JoinFacts
    <3> HIDE DEF t
    <3>3. Len(t) =< TargetChars
      BY <1>1, <2>1, <2>2, <3>2 DEF Fits
    <3>4. Bounded(t, U, ov)
      BY <3>3 DEF Bounded
    <3>5. z \in Seq(Seq(Alpha)) /\ Len(z) = n /\ z[n] = t /\ \A j \in 1..n : j # n => z[j] = texts[j]
      BY <2>1, <3>2
    <3> HIDE DEF z
    <3> QED BY <3>1, <3>4, <3>5
  <2>3. CASE ~Fits(last, u)
    <3> DEFINE h == Stripped(Suffix(last, ov))
               t == Join(h, u)
               z == Append(texts, t)
    <3>1. Put(texts, u, ov) = z
      BY <1>3, <2>3 DEF Put
    <3>2. h \in Seq(Alpha) /\ Len(h) \in 0..ov
      BY <2>1, SuffixFacts
    <3> HIDE DEF h
    <3>3. /\ t \in Seq(Alpha) /\ Len(t) \in Nat /\ Len(t) =< Len(h) + Len(u) + 1
          /\ Len(h) + Len(u) =< Len(t) /\ Len(h) \in Nat
          /\ h = <<>> => t = u
          /\ \A q \in 1..Len(u) : t[Len(t) - Len(u) + q] = u[q]
      BY <1>1, <3>2, JoinFacts
    <3> HIDE DEF t
    <3>4. Len(t) =< Len(u) + ov + 1
      BY <1>1, <3>2, <3>3
    <3>5. \A q \in 1..Len(u) : Len(t) - Len(u) + q \in 1..Len(t)
      BY <1>1, <3>3
    <3>6. ov = 0 => t = u
      <4>1. ov = 0 => Len(h) = 0
        BY <3>2
      <4>2. Len(h) = 0 => h = <<>>
        BY <3>2
      <4> QED BY <3>3, <4>1, <4>2
    <3>7. Carries(t, u, ov)
      BY <3>3, <3>4, <3>5, <3>6 DEF Carries
    <3>8. Bounded(t, U, ov)
      BY <3>7 DEF Bounded
    <3>9. /\ z \in Seq(Seq(Alpha)) /\ Len(z) = n + 1 /\ z[n + 1] = t
          /\ \A j \in 1..n : z[j] = texts[j]
      BY <3>3
    <3>10. \A j \in 1..(n + 1) : j = n + 1 \/ j \in 1..n
      BY <1>1
    <3> HIDE DEF z
    <3> QED BY <3>1, <3>8, <3>9, <3>10
  <2> QED BY <2>2, <2>3
<1> QED BY <1>2, <1>3

\* The buffers of Pack are bounded.
LEMMA PackBounded ==
  ASSUME NEW U \in SUBSET Seq(Alpha), NEW ov \in Nat, TargetChars \in Nat, NEW units \in Seq(U)
  PROVE  /\ Pack(units, ov) \in Seq(Seq(Alpha))
         /\ \A j \in 1..Len(Pack(units, ov)) : Bounded(Pack(units, ov)[j], U, ov)
<1> DEFINE n == Len(units)
<1>1. n \in Nat
  OBVIOUS
<1>2. PICK g : /\ g = [i \in 0..n |-> IF i = 0 THEN <<>> ELSE Put(g[i - 1], units[i], ov)]
               /\ Pack(units, ov) = g[n]
  BY <1>1, PackedExists
<1> DEFINE P == {k \in 0..n : g[k] \in Seq(Seq(Alpha)) /\ \A j \in 1..Len(g[k]) : Bounded(g[k][j], U, ov)}
<1>3. 0 \in P
  <2>1. g[0] = <<>> /\ 0 \in 0..n
    BY <1>1, <1>2
  <2>2. <<>> \in Seq(Seq(Alpha)) /\ 1..Len(<<>>) = {}
    OBVIOUS
  <2>3. g[0] \in Seq(Seq(Alpha)) /\ \A j \in 1..Len(g[0]) : Bounded(g[0][j], U, ov)
    BY <2>1, <2>2
  <2> QED BY <2>1, <2>3
<1>4. ASSUME NEW k \in 0..(n - 1), k \in P PROVE k + 1 \in P
  <2>1. k + 1 \in 1..n /\ (k + 1) - 1 = k /\ k \in 0..n /\ k + 1 \in 0..n
    BY <1>1
  <2>2. g[k + 1] = Put(g[k], units[k + 1], ov) /\ units[k + 1] \in U
    BY <1>2, <2>1
  <2>3. g[k] \in Seq(Seq(Alpha)) /\ \A j \in 1..Len(g[k]) : Bounded(g[k][j], U, ov)
    BY <1>4
  <2> DEFINE x == g[k]
             u == units[k + 1]
  <2> HIDE DEF x, u
  <2>4. /\ Put(x, u, ov) \in Seq(Seq(Alpha))
        /\ \A j \in 1..Len(Put(x, u, ov)) : Bounded(Put(x, u, ov)[j], U, ov)
    BY <2>2, <2>3, PutBounded DEF x, u
  <2> QED BY <2>1, <2>2, <2>4 DEF x, u
<1>5. n \in P
  <2> HIDE DEF P
  <2>1. \A i \in 0..n : i \in P
    BY <1>1, <1>3, <1>4, UpTo
  <2>2. n \in 0..n
    BY <1>1
  <2> QED BY <2>1, <2>2
<1> QED BY <1>2, <1>5

-------------------------------------------------------------------------------
(* A section.                                                              *)

\* A section: paragraphs of sentences.
Section == Seq(Seq(Seq(Char)))

\* The paragraphs of a section, and its letters.
LEMMA Paragraphs ==
  ASSUME NEW sec \in Section, Gap \notin Char, IsInjective(Letters(sec))
  PROVE  /\ Letters(sec) \in Seq(Char)
         /\ \E o \in [0..Len(sec) -> 0..Len(Letters(sec))] :
              /\ o[0] = 0 /\ o[Len(sec)] = Len(Letters(sec))
              /\ \A i \in 1..Len(sec) :
                   /\ sec[i] \in Seq(Seq(Alpha)) /\ Tiled(Letters(sec), sec[i], o[i - 1], o[i])
                   /\ Paragraph(sec[i]) \in Seq(Alpha)
                   /\ Reads(Letters(sec), Paragraph(sec[i]), o[i - 1], o[i])
                   /\ New(Letters(sec), Paragraph(sec[i]), o[i - 1])
<1> DEFINE n == Len(sec)
           G == [i \in DOMAIN sec |-> FlattenSeq(sec[i])]
           f == Letters(sec)
<1>1. n \in Nat /\ DOMAIN sec = 1..n /\ \A i \in 1..n : sec[i] \in Seq(Seq(Char))
  BY DEF Section
<1>2. \A i \in 1..n : G[i] = FlattenSeq(sec[i]) /\ G[i] \in Seq(Char)
  BY <1>1, FlatPlaces
<1>3. G \in Seq(Seq(Char)) /\ Len(G) = n
  <2>1. G \in [1..n -> Seq(Char)]
    BY <1>1, <1>2
  <2> QED BY <1>1, <2>1
<1>4. f = FlattenSeq(G)
  BY DEF Letters
<1> HIDE DEF G, f, n
<1>5. f \in Seq(Char)
  BY <1>3, <1>4, FlatPlaces
<1>6. PICK o \in [0..n -> 0..Len(f)] :
        /\ o[0] = 0 /\ o[n] = Len(f)
        /\ \A i \in 1..n :
             /\ o[i] = o[i - 1] + Len(G[i])
             /\ \A q \in 1..Len(G[i]) : f[o[i - 1] + q] = G[i][q]
  BY <1>3, <1>4, FlatPlaces, SMTT(30)
<1>7. ASSUME NEW i \in 1..n
      PROVE  /\ sec[i] \in Seq(Seq(Alpha)) /\ Tiled(f, sec[i], o[i - 1], o[i])
             /\ Paragraph(sec[i]) \in Seq(Alpha)
             /\ Reads(f, Paragraph(sec[i]), o[i - 1], o[i])
             /\ New(f, Paragraph(sec[i]), o[i - 1])
  <2> DEFINE p == sec[i]
             a == o[i - 1]
             b == o[i]
  <2>1. i \in 0..n /\ i - 1 \in 0..n
    BY <1>1
  <2>2. a \in 0..Len(f) /\ b \in 0..Len(f) /\ p \in Seq(Seq(Char))
    BY <1>1, <2>1
  <2>3. b = a + Len(FlattenSeq(p)) /\ \A q \in 1..Len(FlattenSeq(p)) : f[a + q] = FlattenSeq(p)[q]
    BY <1>2, <1>6
  <2>4. IsInjective(f)
    BY DEF f
  <2> HIDE DEF p, a, b
  <2>5. a \in Nat /\ a + Len(FlattenSeq(p)) =< Len(f)
    BY <1>5, <2>2, <2>3
  <2>6. p \in Seq(Seq(Alpha)) /\ Tiled(f, p, a, b)
    BY <1>5, <2>2, <2>3, <2>4, <2>5, StretchesTiled
  <2>7. <<Gap>> \in Seq({Gap})
    OBVIOUS
  <2>8. /\ Spaced(p, <<Gap>>) \in Seq(Alpha)
        /\ Reads(f, Spaced(p, <<Gap>>), a, b) /\ New(f, Spaced(p, <<Gap>>), a)
    BY <1>5, <2>2, <2>4, <2>6, <2>7, SpacedReads
  <2> QED BY <2>6, <2>8 DEF Paragraph, p, a, b
<1> QED BY <1>5, <1>6, <1>7 DEF n, f

\* The text of a section reads all it says.
LEMMA TextReads ==
  ASSUME NEW sec \in Section, Gap \notin Char, IsInjective(Letters(sec))
  PROVE  /\ Text(sec) \in Seq(Alpha) /\ Reads(Letters(sec), Text(sec), 0, Len(Letters(sec)))
         /\ New(Letters(sec), Text(sec), 0)
<1> DEFINE n == Len(sec)
           f == Letters(sec)
           T == [i \in DOMAIN sec |-> Paragraph(sec[i])]
<1>1. f \in Seq(Char)
  BY Paragraphs
<1>2. PICK o \in [0..n -> 0..Len(f)] :
        /\ o[0] = 0 /\ o[n] = Len(f)
        /\ \A i \in 1..n :
             /\ Paragraph(sec[i]) \in Seq(Alpha)
             /\ Reads(f, Paragraph(sec[i]), o[i - 1], o[i])
             /\ New(f, Paragraph(sec[i]), o[i - 1])
  BY Paragraphs
<1>3. n \in Nat /\ DOMAIN sec = 1..n /\ Len(f) \in Nat
  BY <1>1 DEF Section
<1>4. T \in Seq(Seq(Alpha)) /\ Len(T) = n /\ \A i \in 1..n : T[i] = Paragraph(sec[i])
  <2>1. T \in [1..n -> Seq(Alpha)]
    BY <1>2, <1>3
  <2> QED BY <1>3, <2>1
<1>5. IsInjective(f) /\ Text(sec) = Spaced(T, <<Gap, Gap>>) /\ <<Gap, Gap>> \in Seq({Gap})
  BY DEF Text
<1> HIDE DEF T, f, n
<1>6. Tiled(f, T, 0, Len(f))
  BY <1>2, <1>4 DEF Tiled
<1>7. 0 \in 0..Len(f) /\ Len(f) \in 0..Len(f)
  BY <1>3
<1>8. /\ Spaced(T, <<Gap, Gap>>) \in Seq(Alpha)
      /\ Reads(f, Spaced(T, <<Gap, Gap>>), 0, Len(f)) /\ New(f, Spaced(T, <<Gap, Gap>>), 0)
  BY <1>1, <1>4, <1>5, <1>6, <1>7, SpacedReads
<1> QED BY <1>5, <1>8 DEF f

\* The sentences of a section.
Sentences(sec) == UNION {ToSet(p) : p \in ToSet(sec)}

\* Units read the section once, and only a sentence is longer than TargetChars.
LEMMA UnitsFacts ==
  ASSUME NEW sec \in Section, Gap \notin Char, IsInjective(Letters(sec)), TargetChars \in Nat
  PROVE  /\ Units(sec) \in Seq({u \in Seq(Alpha) : Len(u) =< TargetChars \/ u \in Sentences(sec)})
         /\ Tiled(Letters(sec), Units(sec), 0, Len(Letters(sec)))
<1> DEFINE n == Len(sec)
           f == Letters(sec)
           U == {u \in Seq(Alpha) : Len(u) =< TargetChars \/ u \in Sentences(sec)}
           W == [i \in DOMAIN sec |-> IF Len(Paragraph(sec[i])) =< TargetChars
                                        THEN <<Paragraph(sec[i])>> ELSE Pack(sec[i], 0)]
<1>1. f \in Seq(Char) /\ IsInjective(f)
  BY Paragraphs
<1>2. PICK o \in [0..n -> 0..Len(f)] :
        /\ o[0] = 0 /\ o[n] = Len(f)
        /\ \A i \in 1..n :
             /\ sec[i] \in Seq(Seq(Alpha)) /\ Tiled(f, sec[i], o[i - 1], o[i])
             /\ Paragraph(sec[i]) \in Seq(Alpha)
             /\ Reads(f, Paragraph(sec[i]), o[i - 1], o[i])
             /\ New(f, Paragraph(sec[i]), o[i - 1])
  BY Paragraphs
<1>3. n \in Nat /\ DOMAIN sec = 1..n /\ Len(f) \in Nat
  BY <1>1 DEF Section
<1>4. \A i \in 1..n : W[i] = IF Len(Paragraph(sec[i])) =< TargetChars
                                THEN <<Paragraph(sec[i])>> ELSE Pack(sec[i], 0)
  BY <1>3
<1>5. Units(sec) = FlattenSeq(W)
  BY DEF Units
<1>11. DOMAIN W = 1..n
  BY <1>3
<1>12. W = [i \in DOMAIN W |-> W[i]]
  OBVIOUS
<1>6. \A i \in 1..n : \A s \in 1..Len(sec[i]) : sec[i][s] \in Sentences(sec)
  BY <1>3 DEF Sentences, ToSet
<1> HIDE DEF W, f, n
<1>7. ASSUME NEW i \in 1..n
      PROVE  W[i] \in Seq(U) /\ Tiled(f, W[i], o[i - 1], o[i])
  <2> DEFINE p == sec[i]
             t == Paragraph(sec[i])
             a == o[i - 1]
             b == o[i]
  <2>1. a \in 0..Len(f) /\ b \in 0..Len(f)
    <3>1. i \in 0..n /\ i - 1 \in 0..n
      BY <1>3
    <3> QED BY <3>1
  <2>2. /\ p \in Seq(Seq(Alpha)) /\ Tiled(f, p, a, b)
        /\ t \in Seq(Alpha) /\ Reads(f, t, a, b) /\ New(f, t, a)
    BY <1>2
  <2>3. W[i] = IF Len(t) =< TargetChars THEN <<t>> ELSE Pack(p, 0)
    BY <1>4
  <2>4. \A s \in 1..Len(p) : p[s] \in Sentences(sec)
    BY <1>6
  <2> HIDE DEF p, t, a, b
  <2>5. CASE Len(t) =< TargetChars
    <3>1. t \in U
      BY <2>2, <2>5
    <3>2. <<t>> \in Seq(U) /\ <<t>> \in Seq(Seq(Alpha))
      <4> HIDE DEF U
      <4> QED BY <2>2, <3>1
    <3>3. Chain(f, <<t>>, a, b, 0)
      BY <1>1, <2>1, <2>2, SingleChain
    <3>4. Tiled(f, <<t>>, a, b)
      BY <3>2, <3>3, ChainTiled
    <3> QED BY <2>3, <2>5, <3>2, <3>4 DEF a, b
  <2>6. CASE ~(Len(t) =< TargetChars)
    <3> DEFINE S == Sentences(sec) \cap Seq(Alpha)
               z == Pack(p, 0)
    <3>1. z \in Seq(Seq(Alpha)) /\ Chain(f, z, a, b, 0)
      BY <1>1, <2>1, <2>2, PackChain
    <3>2. Tiled(f, z, a, b)
      BY <3>1, ChainTiled
    <3>3. p \in Seq(S)
      <4>1. \A s \in 1..Len(p) : p[s] \in S
        BY <2>2, <2>4
      <4>2. p \in Seq(Seq(Alpha))
        BY <2>2
      <4> HIDE DEF S
      <4> QED BY <4>1, <4>2, Retyped
    <3>4. \A j \in 1..Len(z) : Bounded(z[j], S, 0)
      <4>1. S \in SUBSET Seq(Alpha) /\ 0 \in Nat
        OBVIOUS
      <4> HIDE DEF S
      <4> QED BY <3>3, <4>1, PackBounded
    <3> HIDE DEF z
    <3>5. \A j \in 1..Len(z) : z[j] \in U
      BY <3>1, <3>4 DEF Bounded, Carries
    <3>6. z \in Seq(U)
      <4> HIDE DEF U
      <4> QED BY <3>1, <3>5
    <3> QED BY <2>3, <2>6, <3>2, <3>6 DEF z, a, b
  <2> QED BY <2>5, <2>6
<1>8. W \in Seq(Seq(U)) /\ W \in Seq(Seq(Seq(Alpha))) /\ Len(W) = n
  <2>1. Seq(U) \subseteq Seq(Seq(Alpha))
    OBVIOUS
  <2> HIDE DEF U
  <2>2. W \in [1..n -> Seq(U)] /\ W \in [1..n -> Seq(Seq(Alpha))]
    BY <1>7, <1>11, <1>12, <2>1
  <2> QED BY <1>3, <2>2
<1>9. FlattenSeq(W) \in Seq(U)
  <2> HIDE DEF U
  <2> QED BY <1>8, FlatPlaces
<1>10. Tiled(f, FlattenSeq(W), 0, Len(f))
  <2>1. \A i \in 1..Len(W) : Tiled(f, W[i], o[i - 1], o[i])
    BY <1>7, <1>8
  <2>2. o \in [0..Len(W) -> 0..Len(f)] /\ o[Len(W)] = Len(f) /\ o[0] = 0
    BY <1>2, <1>8
  <2> QED BY <1>1, <1>8, <2>1, <2>2, TiledFlat
<1> QED BY <1>5, <1>9, <1>10 DEF f

\* A chunk's length, before anything is merged into it.
Fitting(t, sec) ==
  \/ Len(t) - OverlapChars - 1 =< TargetChars
  \/ \E s \in Sentences(sec) : /\ Len(t) - OverlapChars - 1 =< Len(s)
                               /\ ToSet(s) \subseteq ToSet(t)

\* What a section is cut into.
LEMMA SplitFacts ==
  ASSUME NEW sec \in Section, Gap \notin Char, IsInjective(Letters(sec)),
         TargetChars \in Nat, OverlapChars \in Nat
  PROVE  /\ SplitLong(sec) \in Seq(Seq(Alpha))
         /\ Chain(Letters(sec), SplitLong(sec), 0, Len(Letters(sec)), OverlapChars)
         /\ \A j \in 1..Len(SplitLong(sec)) : Fitting(SplitLong(sec)[j], sec)
<1> DEFINE f == Letters(sec)
           t == Text(sec)
           U == {u \in Seq(Alpha) : Len(u) =< TargetChars \/ u \in Sentences(sec)}
           z == Pack(Units(sec), OverlapChars)
<1>1. f \in Seq(Char) /\ IsInjective(f)
  BY Paragraphs
<1>2. 0 \in 0..Len(f) /\ Len(f) \in 0..Len(f)
  BY <1>1
<1>3. t \in Seq(Alpha) /\ Reads(f, t, 0, Len(f)) /\ New(f, t, 0)
  BY TextReads
<1>4. Units(sec) \in Seq(U) /\ Tiled(f, Units(sec), 0, Len(f))
  BY UnitsFacts
<1>5. SplitLong(sec) = IF Len(t) =< TargetChars THEN <<t>> ELSE z
  BY DEF SplitLong
<1>6. CASE Len(t) =< TargetChars
  <2>1. <<t>> \in Seq(Seq(Alpha)) /\ Len(<<t>>) = 1 /\ <<t>>[1] = t
    BY <1>3
  <2>2. Chain(f, <<t>>, 0, Len(f), OverlapChars)
    BY <1>1, <1>2, <1>3, SingleChain
  <2>3. Fitting(t, sec)
    <3>1. Len(t) \in Nat
      BY <1>3
    <3> HIDE DEF t
    <3> QED BY <3>1, <1>6 DEF Fitting
  <2>4. \A j \in 1..Len(<<t>>) : <<t>>[j] = t
    BY <2>1
  <2> QED BY <1>5, <1>6, <2>1, <2>2, <2>3, <2>4
<1>7. CASE ~(Len(t) =< TargetChars)
  <2>1. Units(sec) \in Seq(Seq(Alpha))
    BY <1>4
  <2>2. z \in Seq(Seq(Alpha)) /\ Chain(f, z, 0, Len(f), OverlapChars)
    BY <1>1, <1>2, <1>4, <2>1, PackChain
  <2>3. \A j \in 1..Len(z) : Bounded(z[j], U, OverlapChars)
    <3>1. U \in SUBSET Seq(Alpha)
      OBVIOUS
    <3> HIDE DEF U
    <3> QED BY <1>4, <3>1, PackBounded
  <2> HIDE DEF z
  <2>4. ASSUME NEW j \in 1..Len(z) PROVE Fitting(z[j], sec)
    <3> DEFINE x == z[j]
    <3>0. x \in Seq(Alpha)
      BY <2>2
    <3>4. Bounded(x, U, OverlapChars)
      BY <2>3
    <3>1. Len(x) \in Nat /\ Bounded(x, U, OverlapChars)
      <4> HIDE DEF x
      <4> QED BY <3>0, <3>4
    <3> HIDE DEF x
    <3>2. ASSUME Len(x) =< TargetChars PROVE Fitting(x, sec)
      BY <3>1, <3>2 DEF Fitting
    <3>3. ASSUME \E u \in U : Carries(x, u, OverlapChars) PROVE Fitting(x, sec)
      <4>1. PICK u \in U : Carries(x, u, OverlapChars)
        BY <3>3
      <4>2. u \in Seq(Alpha) /\ Len(u) \in Nat /\ (Len(u) =< TargetChars \/ u \in Sentences(sec))
        OBVIOUS
      <4>3. Len(x) - OverlapChars - 1 =< Len(u)
        BY <3>1, <4>1, <4>2 DEF Carries
      <4>4. ToSet(u) \subseteq ToSet(x)
        <5>1. DOMAIN u = 1..Len(u) /\ DOMAIN x = 1..Len(x)
          BY <3>0, <4>2
        <5> QED BY <4>1, <5>1 DEF Carries, ToSet
      <4>5. Len(u) =< TargetChars => Len(x) - OverlapChars - 1 =< TargetChars
        BY <3>1, <4>2, <4>3
      <4> QED BY <4>2, <4>3, <4>4, <4>5 DEF Fitting
    <3>5. Fitting(x, sec)
      BY <3>1, <3>2, <3>3 DEF Bounded
    <3> QED BY <3>5 DEF x
  <2> QED BY <1>5, <1>7, <2>2, <2>4
<1> QED BY <1>6, <1>7

-------------------------------------------------------------------------------
(* All sections: F[k] is what section k says, and item j of L reads it from  *)
(* b[j] + 1 to e[j].                                                         *)

\* An item of pieces or of merged.
Piece == [sid : Nat \ {0}, text : Seq(Alpha)]

\* Item j brings the letter x of section k.
Covers(L, b, e, j, k, x) == L[j].sid = k /\ b[j] < x /\ x =< e[j]

\* Each item reads on from a place its section has been read to by the items before
\* it, repeats no more than the overlap, and all that was cut is read.
Placing(F, cuts, L, b, e) ==
  /\ \A j \in 1..Len(L) :
       /\ L[j].sid \in 1..cuts /\ e[j] =< Len(F[L[j].sid])
       /\ Reads(F[L[j].sid], L[j].text, b[j], e[j])
       /\ j > 1 => Repeats(F[L[j].sid], L[j - 1].text, L[j].text, b[j], OverlapChars)
  /\ \A i, j \in 1..Len(L) : i < j /\ L[i].sid = L[j].sid => e[i] =< b[j]
  /\ \A j \in 1..Len(L) : \A x \in 1..b[j] : \E i \in 1..(j - 1) : Covers(L, b, e, i, L[j].sid, x)
  /\ \A k \in 1..cuts : \A x \in 1..Len(F[k]) : \E j \in 1..Len(L) : Covers(L, b, e, j, k, x)

\* There are such places.
Placed(F, cuts, L) == \E b, e \in [1..Len(L) -> Nat] : Placing(F, cuts, L, b, e)

\* The places of a chain that reads all of f.
LEMMA ChainPlaces ==
  ASSUME NEW f \in Seq(Char), NEW texts \in Seq(Seq(Alpha)), NEW ov,
         Chain(f, texts, 0, Len(f), ov)
  PROVE  \E b, e \in [1..Len(texts) -> Nat] :
           /\ \A j \in 1..Len(texts) :
                /\ e[j] =< Len(f) /\ Reads(f, texts[j], b[j], e[j])
                /\ j = 1 => b[j] = 0
                /\ j > 1 => Repeats(f, texts[j - 1], texts[j], b[j], ov)
           /\ \A i, j \in 1..Len(texts) : i < j => e[i] =< b[j]
           /\ \A j \in 1..Len(texts) : \A x \in 1..b[j] : \E i \in 1..(j - 1) : b[i] < x /\ x =< e[i]
           /\ \A x \in 1..Len(f) : \E i \in 1..Len(texts) : b[i] < x /\ x =< e[i]
<1> DEFINE n == Len(texts)
<1>1. n \in Nat /\ Len(f) \in Nat
  OBVIOUS
<1>2. PICK c \in [0..n -> 0..Len(f)] :
        /\ c[0] = 0 /\ c[n] = Len(f)
        /\ \A j \in 1..n :
             /\ Reads(f, texts[j], c[j - 1], c[j])
             /\ j > 1 => Repeats(f, texts[j - 1], texts[j], c[j - 1], ov)
  BY DEF Chain
<1>3. \A i \in 0..n : c[i] \in Nat /\ c[i] =< Len(f)
  BY <1>1
<1> DEFINE b == [j \in 1..n |-> c[j - 1]]
           e == [j \in 1..n |-> c[j]]
           P == {j \in 0..n : \A i \in 0..j : c[i] =< c[j]}
<1>4. b \in [1..n -> Nat] /\ e \in [1..n -> Nat] /\ \A j \in 1..n : b[j] = c[j - 1] /\ e[j] = c[j]
  <2>1. \A j \in 1..n : j - 1 \in 0..n /\ j \in 0..n
    BY <1>1
  <2> QED BY <1>3, <2>1
<1>5. \A j \in 0..n : j \in P
  <2>1. 0 \in P
    BY <1>1, <1>3
  <2>2. ASSUME NEW k \in 0..(n - 1), k \in P PROVE k + 1 \in P
    <3>1. k + 1 \in 1..n /\ (k + 1) - 1 = k /\ k \in 0..n /\ k + 1 \in 0..n
      BY <1>1
    <3>2. c[k] =< c[k + 1]
      BY <1>2, <3>1 DEF Reads
    <3>3. ASSUME NEW i \in 0..(k + 1) PROVE c[i] =< c[k + 1]
      <4>1. CASE i = k + 1
        BY <4>1, <1>3, <3>1
      <4>2. CASE i \in 0..k
        <5>1. c[i] =< c[k] /\ i \in 0..n
          BY <2>2, <4>2, <1>1
        <5> QED BY <5>1, <3>1, <3>2, <1>3
      <4> QED BY <4>1, <4>2
    <3> QED BY <3>1, <3>3
  <2> HIDE DEF P
  <2> QED BY <1>1, <2>1, <2>2, UpTo
<1>6. \A i, j \in 0..n : i =< j => c[i] =< c[j]
  <2> TAKE i, j \in 0..n
  <2> HAVE i =< j
  <2>1. i \in 0..j /\ j \in P
    BY <1>5
  <2> QED BY <2>1
<1> HIDE DEF P, b, e
<1>7. ASSUME NEW m \in 0..n, NEW x \in 1..c[m] PROVE \E i \in 1..m : b[i] < x /\ x =< e[i]
  <2> DEFINE Q == {i \in 0..m : x =< c[i]}
  <2>1. m \in Q /\ Q \in SUBSET Nat /\ x \in Nat /\ x > 0
    BY <1>1, <1>3
  <2>2. PICK i \in Q : \A j \in Q : i =< j
    BY <2>1, Least
  <2>3. i # 0 /\ i \in 1..m /\ i \in 1..n /\ i - 1 \in 0..m /\ i - 1 \in 0..n
    BY <1>1, <1>2, <2>1
  <2>4. ~(x =< c[i - 1])
    <3>1. i - 1 \notin Q
      BY <2>2, <2>3
    <3> QED BY <3>1, <2>3
  <2>5. c[i - 1] < x
    <3>1. c[i - 1] \in Nat
      BY <1>3, <2>3
    <3> QED BY <2>1, <2>4, <3>1
  <2> QED BY <2>3, <2>5, <1>4
<1>8. ASSUME NEW j \in 1..n
      PROVE  /\ e[j] =< Len(f) /\ Reads(f, texts[j], b[j], e[j])
             /\ j = 1 => b[j] = 0
             /\ j > 1 => Repeats(f, texts[j - 1], texts[j], b[j], ov)
  <2>1. j \in 0..n /\ b[j] = c[j - 1] /\ e[j] = c[j] /\ (j = 1 => j - 1 = 0)
    BY <1>1, <1>4
  <2> QED BY <1>2, <1>3, <2>1
<1>9. ASSUME NEW i \in 1..n, NEW j \in 1..n, i < j PROVE e[i] =< b[j]
  <2>1. i \in 0..n /\ j - 1 \in 0..n /\ i =< j - 1
    BY <1>1, <1>9
  <2> QED BY <1>4, <1>6, <2>1
<1>10. ASSUME NEW j \in 1..n, NEW x \in 1..b[j] PROVE \E i \in 1..(j - 1) : b[i] < x /\ x =< e[i]
  <2>1. j - 1 \in 0..n /\ b[j] = c[j - 1]
    BY <1>1, <1>4
  <2> QED BY <1>7, <2>1
<1>11. \A x \in 1..Len(f) : \E i \in 1..n : b[i] < x /\ x =< e[i]
  BY <1>1, <1>2, <1>7
<1> HIDE DEF n
<1>12. \E y, z \in [1..n -> Nat] :
         /\ \A j \in 1..n :
              /\ z[j] =< Len(f) /\ Reads(f, texts[j], y[j], z[j])
              /\ j = 1 => y[j] = 0
              /\ j > 1 => Repeats(f, texts[j - 1], texts[j], y[j], ov)
         /\ \A i, j \in 1..n : i < j => z[i] =< y[j]
         /\ \A j \in 1..n : \A x \in 1..y[j] : \E i \in 1..(j - 1) : y[i] < x /\ x =< z[i]
         /\ \A x \in 1..Len(f) : \E i \in 1..n : y[i] < x /\ x =< z[i]
  BY <1>4, <1>8, <1>9, <1>10, <1>11
<1> QED BY <1>12 DEF n

\* A section more, after the others.
LEMMA AppendPlaced ==
  ASSUME NEW m \in Nat, NEW F \in [1..m -> Seq(Char)], NEW cuts \in 0..(m - 1), OverlapChars \in Nat,
         NEW L \in Seq(Piece), Placed(F, cuts, L), NEW texts \in Seq(Seq(Alpha)),
         Chain(F[cuts + 1], texts, 0, Len(F[cuts + 1]), OverlapChars),
         NEW N \in Seq(Piece), Len(N) = Len(texts),
         \A i \in 1..Len(texts) : N[i].sid = cuts + 1 /\ N[i].text = texts[i]
  PROVE  Placed(F, cuts + 1, L \o N)
<1> DEFINE n == Len(L)
           p == Len(texts)
           f == F[cuts + 1]
           z == L \o N
<1>1. cuts + 1 \in 1..m /\ n \in Nat /\ p \in Nat /\ f \in Seq(Char) /\ cuts \in Nat
  OBVIOUS
<1>2. PICK b \in [1..n -> Nat], e \in [1..n -> Nat] : Placing(F, cuts, L, b, e)
  BY DEF Placed
<1>3. PICK c \in [1..p -> Nat], d \in [1..p -> Nat] :
         /\ \A j \in 1..p :
              /\ d[j] =< Len(f) /\ Reads(f, texts[j], c[j], d[j])
              /\ j = 1 => c[j] = 0
              /\ j > 1 => Repeats(f, texts[j - 1], texts[j], c[j], OverlapChars)
         /\ \A i, j \in 1..p : i < j => d[i] =< c[j]
         /\ \A j \in 1..p : \A x \in 1..c[j] : \E i \in 1..(j - 1) : c[i] < x /\ x =< d[i]
         /\ \A x \in 1..Len(f) : \E i \in 1..p : c[i] < x /\ x =< d[i]
  <2> DEFINE g == f
  <2>1. g \in Seq(Char) /\ Chain(g, texts, 0, Len(g), OverlapChars)
    BY <1>1
  <2> HIDE DEF g
  <2>2. \E c, d \in [1..p -> Nat] :
         /\ \A j \in 1..p :
              /\ d[j] =< Len(g) /\ Reads(g, texts[j], c[j], d[j])
              /\ j = 1 => c[j] = 0
              /\ j > 1 => Repeats(g, texts[j - 1], texts[j], c[j], OverlapChars)
         /\ \A i, j \in 1..p : i < j => d[i] =< c[j]
         /\ \A j \in 1..p : \A x \in 1..c[j] : \E i \in 1..(j - 1) : c[i] < x /\ x =< d[i]
         /\ \A x \in 1..Len(g) : \E i \in 1..p : c[i] < x /\ x =< d[i]
    BY <2>1, ChainPlaces
  <2> QED BY <2>2 DEF g
<1>4. /\ z \in Seq(Piece) /\ Len(z) = n + p
      /\ \A i \in 1..n : z[i] = L[i]
      /\ \A i \in 1..p : z[n + i].sid = cuts + 1 /\ z[n + i].text = texts[i]
  BY ConcatFacts, SMTT(30)
<1> DEFINE B == [i \in 1..(n + p) |-> IF i =< n THEN b[i] ELSE c[i - n]]
           E == [i \in 1..(n + p) |-> IF i =< n THEN e[i] ELSE d[i - n]]
<1>5. /\ B \in [1..(n + p) -> Nat] /\ E \in [1..(n + p) -> Nat]
      /\ \A i \in 1..n : B[i] = b[i] /\ E[i] = e[i] /\ b[i] \in Nat /\ e[i] \in Nat
      /\ \A i \in 1..p : B[n + i] = c[i] /\ E[n + i] = d[i] /\ c[i] \in Nat /\ d[i] \in Nat
  <2>1. \A i \in 1..(n + p) : i \in 1..n \/ (~(i =< n) /\ i - n \in 1..p)
    BY <1>1
  <2>2. \A i \in 1..p : n + i \in 1..(n + p) /\ ~(n + i =< n) /\ (n + i) - n = i
    BY <1>1
  <2>3. \A i \in 1..n : i \in 1..(n + p) /\ i =< n
    BY <1>1
  <2> QED BY <2>1, <2>2, <2>3
<1> HIDE DEF B, E, z, f, n, p
<1>6. \A j \in 1..(n + p) : j \in 1..n \/ \E i \in 1..p : j = n + i
  <2> TAKE j \in 1..(n + p)
  <2>1. j \in 1..n \/ (j - n \in 1..p /\ j = n + (j - n))
    BY <1>1
  <2> QED BY <2>1
<1>7. /\ \A j \in 1..n :
           /\ L[j].sid \in 1..cuts /\ e[j] =< Len(F[L[j].sid])
           /\ Reads(F[L[j].sid], L[j].text, b[j], e[j])
           /\ j > 1 => Repeats(F[L[j].sid], L[j - 1].text, L[j].text, b[j], OverlapChars)
      /\ \A i, j \in 1..n : i < j /\ L[i].sid = L[j].sid => e[i] =< b[j]
      /\ \A j \in 1..n : \A x \in 1..b[j] : \E i \in 1..(j - 1) : Covers(L, b, e, i, L[j].sid, x)
      /\ \A k \in 1..cuts : \A x \in 1..Len(F[k]) : \E j \in 1..n : Covers(L, b, e, j, k, x)
  BY <1>2 DEF Placing, n
<1>8. \A i \in 1..n : \A k, x : Covers(L, b, e, i, k, x) => Covers(z, B, E, i, k, x)
  BY <1>4, <1>5 DEF Covers
<1>9. \A i \in 1..p : \A x : c[i] < x /\ x =< d[i] => Covers(z, B, E, n + i, cuts + 1, x)
  BY <1>4, <1>5 DEF Covers
<1>10. ASSUME NEW i \in 1..n PROVE z[i].sid # cuts + 1
  <2>1. z[i].sid \in 1..cuts
    BY <1>4, <1>7
  <2> QED BY <1>1, <2>1, SMTT(30)
<1>11. ASSUME NEW j \in 1..(n + p)
       PROVE  /\ z[j].sid \in 1..(cuts + 1) /\ E[j] =< Len(F[z[j].sid])
              /\ Reads(F[z[j].sid], z[j].text, B[j], E[j])
              /\ j > 1 => Repeats(F[z[j].sid], z[j - 1].text, z[j].text, B[j], OverlapChars)
  <2>1. CASE j \in 1..n
    <3>0. 1..cuts \subseteq 1..(cuts + 1)
      BY <1>1
    <3>1. z[j] = L[j] /\ B[j] = b[j] /\ E[j] = e[j] /\ 1..cuts \subseteq 1..(cuts + 1)
      BY <1>4, <1>5, <2>1, <3>0
    <3>2. j > 1 => j - 1 \in 1..n /\ z[j - 1] = L[j - 1]
      BY <1>1, <1>4, <2>1, SMTT(30)
    <3> QED BY <2>1, <3>1, <3>2, <1>7
  <2>2. CASE \E i \in 1..p : j = n + i
    <3>1. PICK i \in 1..p : j = n + i
      BY <2>2
    <3>2. z[j].sid = cuts + 1 /\ z[j].text = texts[i] /\ B[j] = c[i] /\ E[j] = d[i]
      BY <1>4, <1>5, <3>1
    <3>6. d[i] =< Len(f) /\ Reads(f, texts[i], c[i], d[i])
      BY <1>3
    <3>7. cuts + 1 \in 1..(cuts + 1)
      BY <1>1
    <3>3. cuts + 1 \in 1..(cuts + 1) /\ E[j] =< Len(f) /\ Reads(f, z[j].text, B[j], E[j])
      BY <3>2, <3>6, <3>7
    <3>4. CASE i > 1
      <4>1. i - 1 \in 1..p /\ j - 1 = n + (i - 1)
        <5>1. i \in 1..p /\ j = n + i /\ i > 1 /\ n \in Nat /\ p \in Nat
          BY <1>1, <3>1, <3>4
        <5> HIDE DEF n, p
        <5> QED BY <5>1, SMTT(30)
      <4>2. z[j - 1].text = texts[i - 1]
        BY <1>4, <4>1
      <4> QED BY <1>3, <3>2, <3>3, <3>4, <4>2 DEF f
    <3>5. CASE i = 1
      <4> DEFINE t == z[j].text
                 v == z[j - 1].text
      <4>1. B[j] = 0 /\ Len(t) \in Nat
        <5>1. c[i] = 0
          BY <1>3, <3>5
        <5>2. texts[i] \in Seq(Alpha)
          BY DEF p
        <5>3. Len(texts[i]) \in Nat
          BY <5>2
        <5> QED BY <3>2, <5>1, <5>3
      <4>2. j > 1 => Len(v) \in Nat
        <5> SUFFICES ASSUME j > 1 PROVE Len(v) \in Nat
          OBVIOUS
        <5>1. j - 1 \in 1..(n + p)
          BY <1>1
        <5>2. z[j - 1] \in Piece
          BY <1>4, <5>1
        <5>3. v \in Seq(Alpha)
          BY <5>2 DEF Piece
        <5> QED BY <5>3
      <4> HIDE DEF t, v
      <4>3. j > 1 => Repeats(f, v, t, 0, OverlapChars)
        <5>1. 0 \in 0..OverlapChars /\ 1..0 = {}
          OBVIOUS
        <5>2. j > 1 => 0 =< Len(t) /\ 0 =< Len(v)
          BY <4>1, <4>2
        <5> QED BY <5>1, <5>2 DEF Repeats
      <4> QED BY <3>2, <3>3, <4>1, <4>3 DEF f, t, v
    <3> QED BY <1>1, <3>4, <3>5
  <2> QED BY <1>6, <2>1, <2>2
<1>12. ASSUME NEW i \in 1..(n + p), NEW j \in 1..(n + p), i < j, z[i].sid = z[j].sid
       PROVE  E[i] =< B[j]
  <2>1. CASE j \in 1..n
    <3>1. i \in 1..n
      BY <1>1, <1>12, <2>1
    <3> QED BY <2>1, <3>1, <1>4, <1>5, <1>7, <1>12
  <2>2. CASE \E y \in 1..p : j = n + y
    <3>1. PICK y \in 1..p : j = n + y
      BY <2>2
    <3>2. i \notin 1..n
      BY <1>4, <1>10, <1>12, <3>1
    <3>3. PICK x \in 1..p : i = n + x
      BY <1>6, <3>2
    <3>4. x < y
      BY <1>1, <1>12, <3>1, <3>3
    <3> QED BY <1>3, <1>5, <3>1, <3>3, <3>4
  <2> QED BY <1>6, <2>1, <2>2
<1>13. ASSUME NEW j \in 1..(n + p), NEW x \in 1..B[j]
       PROVE  \E i \in 1..(j - 1) : Covers(z, B, E, i, z[j].sid, x)
  <2>1. CASE j \in 1..n
    <3>1. x \in 1..b[j] /\ z[j] = L[j]
      BY <1>4, <1>5, <2>1
    <3>2. PICK i \in 1..(j - 1) : Covers(L, b, e, i, L[j].sid, x)
      BY <1>7, <2>1, <3>1
    <3>3. i \in 1..n
      BY <1>1, <2>1
    <3> QED BY <1>8, <3>1, <3>2, <3>3
  <2>2. CASE \E y \in 1..p : j = n + y
    <3>1. PICK y \in 1..p : j = n + y
      BY <2>2
    <3>2. x \in 1..c[y] /\ z[j].sid = cuts + 1
      BY <1>4, <1>5, <3>1
    <3>3. PICK i \in 1..(y - 1) : c[i] < x /\ x =< d[i]
      BY <1>3, <3>2
    <3>5. n \in Nat /\ p \in Nat /\ y \in Nat /\ y =< p /\ i \in Nat /\ i >= 1 /\ i =< y - 1
      BY <1>1
    <3>4. i \in 1..p /\ n + i \in 1..(j - 1)
      BY <3>1, <3>5
    <3> QED BY <1>9, <3>2, <3>3, <3>4
  <2> QED BY <1>6, <2>1, <2>2
<1>14. ASSUME NEW k \in 1..(cuts + 1), NEW x \in 1..Len(F[k])
       PROVE  \E j \in 1..(n + p) : Covers(z, B, E, j, k, x)
  <2>1. CASE k = cuts + 1
    <3>1. PICK i \in 1..p : c[i] < x /\ x =< d[i]
      BY <1>3, <2>1 DEF f
    <3>2. n + i \in 1..(n + p)
      BY <1>1
    <3> QED BY <1>9, <2>1, <3>1, <3>2
  <2>2. CASE k # cuts + 1
    <3>1. k \in 1..cuts
      BY <1>1, <2>2
    <3>2. PICK j \in 1..n : Covers(L, b, e, j, k, x)
      BY <1>7, <3>1
    <3>3. j \in 1..(n + p)
      BY <1>1
    <3> QED BY <1>8, <3>2, <3>3
  <2> QED BY <2>1, <2>2
<1>15. Placing(F, cuts + 1, z, B, E)
  BY <1>4, <1>11, <1>12, <1>13, <1>14 DEF Placing
<1>16. B \in [1..Len(z) -> Nat] /\ E \in [1..Len(z) -> Nat]
  BY <1>4, <1>5
<1>17. Placed(F, cuts + 1, z)
  BY <1>15, <1>16 DEF Placed
<1> QED BY <1>17 DEF z

\* A text that grows at its beginning still ends as it did.
LEMMA PreviousGrows ==
  ASSUME NEW f, NEW a, NEW ov \in Nat, NEW x \in Seq(Alpha), NEW u \in Seq(Alpha), NEW t,
         Repeats(f, u, t, a, ov)
  PROVE  Repeats(f, Join(x, u), t, a, ov)
<1> DEFINE z == Join(x, u)
<1>1. PICK k \in 0..ov :
        /\ k =< Len(t) /\ k =< Len(u)
        /\ \A q \in 1..k : t[q] = u[Len(u) - k + q]
        /\ \A q \in 1..Len(t), i \in 1..a : t[q] = f[i] => \E r \in 1..k : t[r] = f[i]
  BY DEF Repeats
<1>2. /\ Len(z) \in Nat /\ Len(u) \in Nat /\ Len(u) =< Len(z)
      /\ \A q \in 1..Len(u) : z[Len(z) - Len(u) + q] = u[q]
  BY JoinFacts
<1> HIDE DEF z
<1>3. ASSUME NEW q \in 1..k PROVE t[q] = z[Len(z) - k + q]
  <2>1. Len(u) - k + q \in 1..Len(u) /\ Len(z) - Len(u) + (Len(u) - k + q) = Len(z) - k + q
    BY <1>1, <1>2
  <2> QED BY <1>1, <1>2, <2>1
<1>4. k =< Len(z)
  BY <1>1, <1>2
<1>5. Repeats(f, z, t, a, ov)
  BY <1>1, <1>3, <1>4 DEF Repeats
<1> QED BY <1>5 DEF z

\* Two items of a section, one after the other, become one.
LEMMA FusePlaced ==
  ASSUME NEW cuts \in Nat, NEW F \in [1..cuts -> Seq(Char)], OverlapChars \in Nat, Gap \notin Char,
         \A k \in 1..cuts : IsInjective(F[k]),
         NEW L \in Seq(Piece), Placed(F, cuts, L),
         NEW m \in 1..(Len(L) - 1), L[m].sid = L[m + 1].sid,
         NEW N \in Seq(Piece), Len(N) = Len(L) - 1,
         \A i \in 1..(m - 1) : N[i] = L[i],
         N[m].sid = L[m].sid, N[m].text = Join(L[m].text, L[m + 1].text),
         \A i \in (m + 1)..(Len(L) - 1) : N[i] = L[i + 1]
  PROVE  Placed(F, cuts, N)
<1> DEFINE n == Len(L)
<1>1. PICK b \in [1..n -> Nat], e \in [1..n -> Nat] : Placing(F, cuts, L, b, e)
  BY DEF Placed
<1>2. n \in Nat /\ m \in Nat /\ m >= 1 /\ m + 1 =< n /\ m \in 1..n /\ m + 1 \in 1..n
  <2>1. n \in Nat
    OBVIOUS
  <2> HIDE DEF n
  <2> QED BY <2>1 DEF n
<1>3. /\ \A i \in 1..(m - 1) : N[i] = L[i]
      /\ N[m].sid = L[m].sid /\ N[m].text = Join(L[m].text, L[m + 1].text)
      /\ \A i \in (m + 1)..(n - 1) : N[i] = L[i + 1]
      /\ Len(N) = n - 1
  OBVIOUS
<1>4. /\ \A j \in 1..n :
           /\ L[j].sid \in 1..cuts /\ e[j] =< Len(F[L[j].sid])
           /\ Reads(F[L[j].sid], L[j].text, b[j], e[j])
           /\ j > 1 => Repeats(F[L[j].sid], L[j - 1].text, L[j].text, b[j], OverlapChars)
      /\ \A i, j \in 1..n : i < j /\ L[i].sid = L[j].sid => e[i] =< b[j]
      /\ \A j \in 1..n : \A x \in 1..b[j] : \E i \in 1..(j - 1) : Covers(L, b, e, i, L[j].sid, x)
      /\ \A k \in 1..cuts : \A x \in 1..Len(F[k]) : \E j \in 1..n : Covers(L, b, e, j, k, x)
  BY <1>1 DEF Placing
<1>5. \A j \in 1..n : b[j] \in Nat /\ e[j] \in Nat /\ b[j] =< e[j] /\ L[j].text \in Seq(Alpha)
  <2> TAKE j \in 1..n
  <2>1. b[j] =< e[j]
    BY <1>4 DEF Reads
  <2>2. L[j] \in Piece
    OBVIOUS
  <2> QED BY <2>1, <2>2 DEF Piece
<1> HIDE DEF n
<1> DEFINE s == L[m].sid
           f == F[s]
           t == L[m].text
           u == L[m + 1].text
<1>6. /\ s \in 1..cuts /\ f \in Seq(Char) /\ IsInjective(f) /\ L[m + 1].sid = s
      /\ t \in Seq(Alpha) /\ u \in Seq(Alpha) /\ Len(f) \in Nat
  <2>1. s \in 1..cuts
    BY <1>2, <1>4
  <2>2. f \in Seq(Char) /\ IsInjective(f)
    BY <2>1
  <2>3. Len(f) \in Nat
    BY <2>2
  <2>4. t \in Seq(Alpha) /\ u \in Seq(Alpha) /\ L[m + 1].sid = s
    BY <1>2, <1>5
  <2> QED BY <2>1, <2>2, <2>3, <2>4
<1>7. /\ Reads(f, t, b[m], e[m]) /\ Reads(f, u, b[m + 1], e[m + 1])
      /\ Repeats(f, t, u, b[m + 1], OverlapChars)
      /\ m > 1 => Repeats(f, L[m - 1].text, t, b[m], OverlapChars)
      /\ e[m + 1] =< Len(f)
  <2>1. m + 1 > 1 /\ (m + 1) - 1 = m
    BY <1>2, SMTT(30)
  <2> QED BY <1>2, <1>4, <1>6, <2>1
\* The second begins where the first ends.
<1>8. e[m] = b[m + 1]
  <2>1. e[m] =< b[m + 1]
    BY <1>2, <1>4, <1>6
  <2>2. ASSUME e[m] < b[m + 1] PROVE FALSE
    <3>1. b[m + 1] \in 1..b[m + 1]
      BY <1>2, <1>5, <2>2
    <3>2. PICK i \in 1..((m + 1) - 1) : Covers(L, b, e, i, s, b[m + 1])
      BY <1>2, <1>4, <1>6, <3>1
    <3>3. i \in 1..m /\ i \in 1..n /\ L[i].sid = s /\ b[m + 1] =< e[i]
      BY <1>2, <3>2 DEF Covers
    <3>4. CASE i = m
      BY <2>2, <3>3, <3>4, <1>2, <1>5
    <3>5. CASE i < m
      <4>1. e[i] =< b[m]
        BY <1>2, <1>4, <3>3, <3>5
      <4> QED BY <2>2, <3>3, <4>1, <1>2, <1>5
    <3> QED BY <1>2, <3>3, <3>4, <3>5
  <2> QED BY <2>1, <2>2, <1>2, <1>5
<1> DEFINE B == [i \in 1..(n - 1) |-> IF i =< m THEN b[i] ELSE b[i + 1]]
           E == [i \in 1..(n - 1) |-> IF i < m THEN e[i] ELSE e[i + 1]]
<1>9. /\ B \in [1..(n - 1) -> Nat] /\ E \in [1..(n - 1) -> Nat]
      /\ \A i \in 1..(m - 1) : B[i] = b[i] /\ E[i] = e[i] /\ i \in 1..n
      /\ B[m] = b[m] /\ E[m] = e[m + 1]
      /\ \A i \in (m + 1)..(n - 1) : B[i] = b[i + 1] /\ E[i] = e[i + 1] /\ i + 1 \in 1..n
  <2>1. \A i \in 1..(n - 1) : i \in 1..n /\ i + 1 \in 1..n
    BY <1>2
  <2>2. \A i \in 1..(m - 1) : i \in 1..(n - 1) /\ i =< m /\ i < m
    BY <1>2
  <2>3. m \in 1..(n - 1) /\ m =< m /\ ~(m < m)
    BY <1>2
  <2>4. \A i \in (m + 1)..(n - 1) : i \in 1..(n - 1) /\ ~(i =< m) /\ ~(i < m)
    BY <1>2
  <2> QED BY <2>1, <2>2, <2>3, <2>4
<1>10. \A i \in 1..(n - 1) : i \in 1..(m - 1) \/ i = m \/ i \in (m + 1)..(n - 1)
  BY <1>2
<1> HIDE DEF B, E, s, f, t, u
<1>11. ASSUME NEW j \in 1..(n - 1)
       PROVE  /\ N[j].sid \in 1..cuts /\ E[j] =< Len(F[N[j].sid])
              /\ Reads(F[N[j].sid], N[j].text, B[j], E[j])
              /\ j > 1 => Repeats(F[N[j].sid], N[j - 1].text, N[j].text, B[j], OverlapChars)
  <2>1. CASE j \in 1..(m - 1)
    <3>1. N[j] = L[j] /\ B[j] = b[j] /\ E[j] = e[j] /\ j \in 1..n
      BY <1>3, <1>9, <2>1
    <3>2. j > 1 => N[j - 1] = L[j - 1]
      <4>1. j > 1 => j - 1 \in 1..(m - 1)
        BY <1>2, <2>1
      <4> QED BY <4>1, <1>3
    <3> QED BY <1>4, <3>1, <3>2
  <2>2. CASE j = m
    <3>1. /\ N[m].sid = s /\ N[m].text = Join(t, u) /\ B[m] = b[m] /\ E[m] = e[m + 1]
          /\ F[N[m].sid] = f
      BY <1>3, <1>9 DEF s, t, u, f
    <3>2. /\ b[m] \in Nat /\ e[m] \in Nat /\ e[m + 1] \in Nat /\ b[m] =< e[m] /\ e[m] =< e[m + 1]
          /\ b[m] =< Len(f)
      BY <1>2, <1>5, <1>6, <1>7, <1>8
    <3>3. Reads(f, u, e[m], e[m + 1])
      BY <1>7, <1>8
    <3>4. Reads(f, Join(t, u), b[m], e[m + 1])
      <4> DEFINE x == b[m]
                 y == e[m]
                 w == e[m + 1]
      <4>1. x \in Nat /\ y \in Nat /\ w \in Nat /\ x =< y /\ y =< w /\ w =< Len(f)
        BY <1>7, <3>2
      <4>2. Reads(f, t, x, y) /\ Reads(f, u, y, w)
        BY <1>7, <3>3
      <4> HIDE DEF x, y, w
      <4>3. Reads(f, Join(t, u), x, w)
        BY <1>6, <4>1, <4>2, JoinReads
      <4> QED BY <4>3 DEF x, w
    <3>5. ASSUME m > 1 PROVE Repeats(f, N[m - 1].text, Join(t, u), b[m], OverlapChars)
      <4>1. N[m - 1] = L[m - 1]
        <5>1. m - 1 \in 1..(m - 1)
          BY <1>2, <3>5
        <5> QED BY <5>1, <1>3
      <4>2. Repeats(f, L[m - 1].text, t, b[m], OverlapChars)
        BY <1>7, <3>5
      <4>3. ASSUME NEW q \in 1..Len(u), NEW i \in 1..b[m], u[q] = f[i]
            PROVE  \E r \in 1..Len(t) : t[r] = f[i]
        <5>1. i \in 1..b[m + 1]
          BY <1>2, <1>5, <1>8, <3>2
        <5>2. PICK k \in 0..OverlapChars :
                /\ k =< Len(u) /\ k =< Len(t)
                /\ \A y \in 1..k : u[y] = t[Len(t) - k + y]
                /\ \A y \in 1..Len(u), x \in 1..b[m + 1] :
                     u[y] = f[x] => \E r \in 1..k : u[r] = f[x]
          BY <1>7 DEF Repeats
        <5>3. PICK r \in 1..k : u[r] = f[i]
          BY <4>3, <5>1, <5>2
        <5>4. Len(t) \in Nat
          BY <1>6
        <5>5. Len(t) - k + r \in 1..Len(t)
          BY <5>2, <5>4
        <5> QED BY <5>2, <5>3, <5>5
      <4> DEFINE x == b[m]
                 prev == L[m - 1].text
      <4>4. /\ x \in Nat /\ x =< Len(f) /\ Repeats(f, prev, t, x, OverlapChars)
            /\ \A q \in 1..Len(u), i \in 1..x : u[q] = f[i] => \E r \in 1..Len(t) : t[r] = f[i]
        BY <3>2, <4>2, <4>3
      <4> HIDE DEF x, prev
      <4>5. Repeats(f, prev, Join(t, u), x, OverlapChars)
        BY <1>6, <4>4, JoinRepeats
      <4> QED BY <4>1, <4>5 DEF x, prev
    <3> QED BY <2>2, <3>1, <3>4, <3>5, <1>6, <1>7
  <2>3. CASE j \in (m + 1)..(n - 1)
    <3>1. N[j] = L[j + 1] /\ B[j] = b[j + 1] /\ E[j] = e[j + 1] /\ j + 1 \in 1..n
      BY <1>3, <1>9, <2>3
    <3>2. (j + 1) - 1 = j /\ j + 1 > 1 /\ j \in 1..n
      BY <1>2, <2>3
    <3>3. /\ L[j + 1].sid \in 1..cuts /\ e[j + 1] =< Len(F[L[j + 1].sid])
          /\ Reads(F[L[j + 1].sid], L[j + 1].text, b[j + 1], e[j + 1])
          /\ Repeats(F[L[j + 1].sid], L[j].text, L[j + 1].text, b[j + 1], OverlapChars)
      BY <1>4, <3>1, <3>2
    <3>4. CASE j - 1 = m
      <4>0. j = m + 1 /\ j - 1 = m
        BY <1>2, <2>3, <3>4
      <4>1. j = m + 1 /\ N[j - 1].text = Join(t, u) /\ L[j].text = u
        BY <1>3, <4>0 DEF t, u
      <4> DEFINE g == F[L[j + 1].sid]
                 x == L[j + 1].text
                 a == b[j + 1]
      <4>2. Repeats(g, u, x, a, OverlapChars)
        BY <3>3, <4>1
      <4> HIDE DEF g, x, a
      <4>3. Repeats(g, Join(t, u), x, a, OverlapChars)
        BY <1>6, <4>2, PreviousGrows
      <4> QED BY <3>1, <3>3, <4>1, <4>3 DEF g, x, a
    <3>5. CASE j - 1 # m
      <4>1. j - 1 \in (m + 1)..(n - 1) /\ (j - 1) + 1 = j
        BY <1>2, <2>3, <3>5, SMTT(30)
      <4>2. N[j - 1] = L[j]
        BY <1>3, <4>1
      <4> QED BY <3>1, <3>3, <4>2
    <3> QED BY <3>4, <3>5
  <2> QED BY <1>10, <2>1, <2>2, <2>3
\* Item i of L is in item To[i] of N, which is the first of it or, at m, both.
<1> DEFINE To(i) == IF i =< m THEN i ELSE i - 1
<1>12. ASSUME NEW i \in 1..n, NEW k, NEW x, x \in Nat, Covers(L, b, e, i, k, x)
       PROVE  To(i) \in 1..(n - 1) /\ Covers(N, B, E, To(i), k, x)
  <2>1. CASE i < m
    <3>1. i \in 1..(m - 1) /\ To(i) = i /\ To(i) \in 1..(n - 1)
      BY <1>2, <2>1
    <3> QED BY <1>3, <1>9, <1>12, <3>1 DEF Covers
  <2>2. CASE i = m \/ i = m + 1
    <3>1. To(i) = m /\ m \in 1..(n - 1)
      BY <1>2, <2>2
    <3>2. k = s /\ N[m].sid = s
      BY <1>3, <1>6, <1>12, <2>2 DEF Covers, s
    <3>3. b[m] =< e[m] /\ e[m] =< e[m + 1] /\ e[m] = b[m + 1]
      BY <1>2, <1>5, <1>8
    <3>4. b[m] < x /\ x =< e[m + 1]
      <4>1. CASE i = m
        BY <4>1, <3>3, <1>2, <1>5, <1>12 DEF Covers
      <4>2. CASE i = m + 1
        BY <4>2, <3>3, <1>2, <1>5, <1>12 DEF Covers
      <4> QED BY <2>2, <4>1, <4>2
    <3> QED BY <1>9, <3>1, <3>2, <3>4 DEF Covers
  <2>3. CASE i > m + 1
    <3>1. i - 1 \in (m + 1)..(n - 1) /\ To(i) = i - 1 /\ (i - 1) + 1 = i /\ To(i) \in 1..(n - 1)
      BY <1>2, <2>3
    <3>2. N[i - 1] = L[i] /\ B[i - 1] = b[i] /\ E[i - 1] = e[i]
      BY <1>3, <1>9, <3>1
    <3> QED BY <1>12, <3>1, <3>2 DEF Covers
  <2> QED BY <1>2, <2>1, <2>2, <2>3
<1> DEFINE First(j) == IF j < m THEN j ELSE j + 1
           Second(j) == IF j =< m THEN j ELSE j + 1
<1>18. ASSUME NEW j \in 1..(n - 1)
       PROVE  /\ Second(j) \in 1..n /\ B[j] = b[Second(j)] /\ L[Second(j)].sid = N[j].sid
              /\ First(j) \in 1..n /\ E[j] = e[First(j)] /\ L[First(j)].sid = N[j].sid
  <2>1. CASE j \in 1..(m - 1)
    <3>1. Second(j) = j /\ First(j) = j /\ j \in 1..n
      BY <1>2, <2>1
    <3> HIDE DEF First, Second
    <3> QED BY <2>1, <3>1, <1>3, <1>9
  <2>2. CASE j = m
    <3>1. Second(j) = m /\ First(j) = m + 1
      BY <1>2, <2>2
    <3> HIDE DEF First, Second
    <3> QED BY <2>2, <3>1, <1>2, <1>3, <1>6, <1>9 DEF s
  <2>3. CASE j \in (m + 1)..(n - 1)
    <3>1. Second(j) = j + 1 /\ First(j) = j + 1
      BY <1>2, <2>3
    <3> HIDE DEF First, Second
    <3> QED BY <2>3, <3>1, <1>3, <1>9
  <2> QED BY <1>10, <2>1, <2>2, <2>3
<1>13. ASSUME NEW i \in 1..(n - 1), NEW j \in 1..(n - 1), i < j, N[i].sid = N[j].sid
       PROVE  E[i] =< B[j]
  <2>1. First(i) < Second(j)
    <3>1. i \in Nat /\ j \in Nat /\ i < j /\ m \in Nat
      BY <1>2, <1>13
    <3> QED BY <3>1
  <2>2. \A v, w \in 1..n : v < w /\ L[v].sid = L[w].sid => e[v] =< b[w]
    BY <1>4
  <2> HIDE DEF First, Second
  <2>3. First(i) \in 1..n /\ Second(j) \in 1..n /\ L[First(i)].sid = L[Second(j)].sid
    BY <1>13, <1>18
  <2>4. e[First(i)] =< b[Second(j)]
    BY <2>1, <2>2, <2>3
  <2> QED BY <1>18, <2>4
<1>14. ASSUME NEW j \in 1..(n - 1), NEW x \in 1..B[j]
       PROVE  \E i \in 1..(j - 1) : Covers(N, B, E, i, N[j].sid, x)
  <2> DEFINE w == Second(j)
  <2>1. w \in 1..n
    BY <1>18
  <2>2. B[j] = b[w] /\ L[w].sid = N[j].sid
    BY <1>18
  <2>3. PICK i \in 1..(w - 1) : Covers(L, b, e, i, N[j].sid, x)
    <3> HIDE DEF w
    <3> QED BY <1>4, <2>1, <2>2
  <2>4. i \in 1..n /\ To(i) =< j - 1 /\ x \in Nat
    <3>1. j \in Nat /\ i \in Nat /\ i >= 1 /\ i =< w - 1 /\ w =< n /\ w \in Nat
      <4> HIDE DEF w
      <4> QED BY <2>1
    <3>2. i \in 1..n
      BY <1>2, <3>1
    <3>3. CASE j =< m
      <4>1. w = j
        BY <3>3
      <4>2. To(i) = i
        BY <3>1, <3>3, <4>1, <1>2
      <4> QED BY <3>1, <3>2, <4>1, <4>2
    <3>4. CASE ~(j =< m)
      <4>1. w = j + 1
        BY <3>4
      <4>2. To(i) =< j - 1
        BY <3>1, <3>4, <4>1, <1>2
      <4> QED BY <3>2, <4>2
    <3> QED BY <3>3, <3>4
  <2>5. To(i) \in 1..(n - 1) /\ Covers(N, B, E, To(i), N[j].sid, x)
    <3> HIDE DEF To, w
    <3> QED BY <1>12, <2>3, <2>4
  <2> HIDE DEF To, w
  <2>6. To(i) \in 1..(j - 1)
    BY <1>2, <2>4, <2>5
  <2> QED BY <2>5, <2>6
<1>15. ASSUME NEW k \in 1..cuts, NEW x \in 1..Len(F[k])
       PROVE  \E j \in 1..(n - 1) : Covers(N, B, E, j, k, x)
  <2>1. PICK i \in 1..n : Covers(L, b, e, i, k, x)
    BY <1>4
  <2>2. x \in Nat
    OBVIOUS
  <2> HIDE DEF To
  <2> QED BY <1>12, <2>1, <2>2
<1>16. Placing(F, cuts, N, B, E)
  BY <1>3, <1>11, <1>13, <1>14, <1>15 DEF Placing
<1>17. B \in [1..Len(N) -> Nat] /\ E \in [1..Len(N) -> Nat]
  BY <1>3, <1>9
<1> QED BY <1>16, <1>17 DEF Placed

-------------------------------------------------------------------------------
(* The invariant.                                                          *)

\* What each section says.
Said == [k \in 1..Len(doc) |-> Letters(doc[k])]

\* The length of a piece as it was cut.
Unmerged(p) == Fitting(p.text, doc[p.sid])

\* What was cut so far is all there, in order, in merged and then pieces.
ChunkInv ==
  /\ doc \in Documents /\ cut \in 0..Len(doc)
  /\ pieces \in Seq(Piece) /\ merged \in Seq(Piece)
  /\ cut < Len(doc) => merged = <<>>
  /\ Placed(Said, cut, merged \o pieces)
  /\ \A j \in 1..Len(pieces) : Unmerged(pieces[j])
  /\ \A j \in 1..Len(merged) :
       2 * (Len(merged[j].text) - 1) =< 3 * TargetChars \/ Unmerged(merged[j])

\* The assumptions about a document.
LEMMA DocumentFacts ==
  ASSUME NEW d \in Documents
  PROVE  /\ Len(d) \in Nat /\ DOMAIN d = 1..Len(d)
         /\ \A k \in 1..Len(d) : /\ d[k] \in Section /\ IsInjective(Letters(d[k]))
                                 /\ Letters(d[k]) \in Seq(Char)
         /\ \A k, l \in 1..Len(d) :
              k # l => ToSet(Letters(d[k])) \cap ToSet(Letters(d[l])) = {}
         /\ TargetChars \in Nat /\ OverlapChars \in Nat /\ MinChars \in Nat /\ Gap \notin Char
<1>1. d \in Seq(Section)
  BY ChunkerAssumption DEF Section
<1>2. Len(d) \in Nat /\ DOMAIN d = 1..Len(d) /\ \A k \in 1..Len(d) : d[k] \in Section
  BY <1>1
<1>3. /\ TargetChars \in Nat /\ OverlapChars \in Nat /\ MinChars \in Nat /\ Gap \notin Char
      /\ \A k \in 1..Len(d) : IsInjective(Letters(d[k]))
      /\ \A k, l \in 1..Len(d) :
           k # l => ToSet(Letters(d[k])) \cap ToSet(Letters(d[l])) = {}
  BY <1>2, ChunkerAssumption
<1>4. \A k \in 1..Len(d) : Letters(d[k]) \in Seq(Char)
  BY <1>2, <1>3, Paragraphs
<1> QED BY <1>2, <1>3, <1>4

\* What its sections say.
LEMMA SaysFacts ==
  ASSUME doc \in Documents
  PROVE  /\ Said \in [1..Len(doc) -> Seq(Char)] /\ Len(doc) \in Nat
         /\ \A k \in 1..Len(doc) : Said[k] = Letters(doc[k]) /\ IsInjective(Said[k])
BY DocumentFacts DEF Said

\* Nothing is cut and nothing said.
LEMMA ChunkInitInv == ChunkInit => ChunkInv
<1> SUFFICES ASSUME ChunkInit PROVE ChunkInv
  OBVIOUS
<1>1. doc \in Documents /\ cut = 0 /\ pieces = <<>> /\ merged = <<>>
  BY DEF ChunkInit
<1>2. Len(doc) \in Nat
  BY <1>1, DocumentFacts
<1>3. <<>> \o <<>> = <<>> /\ <<>> \in Seq(Piece) /\ Len(<<>>) = 0
  OBVIOUS
<1> DEFINE L == merged \o pieces
<1>4. L \in Seq(Piece) /\ Len(L) = 0
  BY <1>1, <1>3
<1> HIDE DEF L
<1> DEFINE b == [i \in 1..Len(L) |-> 0]
<1>5. b \in [1..Len(L) -> Nat]
  OBVIOUS
<1>6. 1..Len(L) = {} /\ 1..0 = {}
  BY <1>4
<1>7. Placing(Said, 0, L, b, b)
  BY <1>6 DEF Placing
<1>8. Placed(Said, cut, L)
  BY <1>1, <1>5, <1>7 DEF Placed
<1>9. cut \in 0..Len(doc) /\ 1..Len(pieces) = {} /\ 1..Len(merged) = {}
  BY <1>1, <1>2, <1>3
<1> QED BY <1>1, <1>3, <1>8, <1>9 DEF ChunkInv, L

\* A section more is cut (lines 87-92): its texts are a chain that reads it all.
LEMMA SplitInv == ASSUME ChunkInv, Split PROVE ChunkInv'
<1>1. /\ doc \in Documents /\ cut \in 0..Len(doc) /\ cut < Len(doc)
      /\ pieces \in Seq(Piece) /\ merged = <<>> /\ Placed(Said, cut, merged \o pieces)
      /\ \A j \in 1..Len(pieces) : Unmerged(pieces[j])
  BY DEF ChunkInv, Split
<1> DEFINE k == cut + 1
           sec == doc[k]
           texts == SplitLong(sec)
           N == [i \in DOMAIN texts |-> [sid |-> k, text |-> texts[i]]]
<1>2. doc' = doc /\ merged' = merged /\ cut' = k /\ pieces' = pieces \o N
  BY DEF Split
<1>3. k \in 1..Len(doc) /\ cut \in 0..(Len(doc) - 1) /\ k \in Nat /\ k > 0
  BY <1>1, DocumentFacts
<1>4. /\ sec \in Section /\ IsInjective(Letters(sec)) /\ Gap \notin Char
      /\ TargetChars \in Nat /\ OverlapChars \in Nat
  BY <1>1, <1>3, DocumentFacts
<1>5. /\ texts \in Seq(Seq(Alpha))
      /\ Chain(Letters(sec), texts, 0, Len(Letters(sec)), OverlapChars)
      /\ \A j \in 1..Len(texts) : Fitting(texts[j], sec)
  <2> HIDE DEF sec
  <2> QED BY <1>4, SplitFacts
<1> HIDE DEF texts
<1>6. /\ N \in Seq(Piece) /\ Len(N) = Len(texts)
      /\ \A i \in 1..Len(texts) : N[i].sid = k /\ N[i].text = texts[i]
  <2>1. DOMAIN texts = 1..Len(texts) /\ Len(texts) \in Nat /\ \A i \in 1..Len(texts) : texts[i] \in Seq(Alpha)
    BY <1>5
  <2>2. \A i \in 1..Len(texts) : [sid |-> k, text |-> texts[i]] \in Piece
    BY <1>3, <2>1 DEF Piece
  <2>3. N \in [1..Len(texts) -> Piece]
    BY <2>1, <2>2
  <2>4. N \in Seq(Piece) /\ Len(N) = Len(texts)
    BY <2>1, <2>3
  <2>5. \A i \in 1..Len(texts) : N[i] = [sid |-> k, text |-> texts[i]]
    BY <2>1
  <2> QED BY <2>4, <2>5
<1> HIDE DEF N, k
<1>7. /\ Said \in [1..Len(doc) -> Seq(Char)] /\ Len(doc) \in Nat /\ Said[k] = Letters(sec)
      /\ Said' = Said
  BY <1>1, <1>2, <1>3, SaysFacts DEF Said
<1>8. merged \o pieces = pieces /\ merged' \o pieces' = pieces \o N
  BY <1>1, <1>2, <1>6
<1>9. Placed(Said, k, pieces \o N)
  <2> DEFINE F == Said
             L == pieces
             m == Len(doc)
  <2>1. /\ m \in Nat /\ F \in [1..m -> Seq(Char)] /\ cut \in 0..(m - 1) /\ L \in Seq(Piece)
        /\ Placed(F, cut, L) /\ Chain(F[cut + 1], texts, 0, Len(F[cut + 1]), OverlapChars)
    BY <1>1, <1>3, <1>5, <1>7, <1>8 DEF k
  <2> HIDE DEF F, L, m
  <2>2. \A i \in 1..Len(texts) : N[i].sid = cut + 1 /\ N[i].text = texts[i]
    BY <1>6 DEF k
  <2>3. Placed(F, cut + 1, L \o N)
    BY <1>4, <1>5, <1>6, <2>1, <2>2, AppendPlaced
  <2> QED BY <2>3 DEF F, L, k
<1>10. ASSUME NEW j \in 1..Len(pieces \o N) PROVE Unmerged((pieces \o N)[j])
  <2>1. \/ j \in 1..Len(pieces) /\ (pieces \o N)[j] = pieces[j]
        \/ j - Len(pieces) \in 1..Len(texts) /\ (pieces \o N)[j] = N[j - Len(pieces)]
    BY <1>1, <1>6, ConcatFacts
  <2>2. CASE j \in 1..Len(pieces) /\ (pieces \o N)[j] = pieces[j]
    BY <1>1, <2>2
  <2>3. CASE j - Len(pieces) \in 1..Len(texts) /\ (pieces \o N)[j] = N[j - Len(pieces)]
    BY <1>5, <1>6, <2>3 DEF Unmerged, k
  <2> QED BY <2>1, <2>2, <2>3
<1>11. pieces' \in Seq(Piece) /\ cut' \in 0..Len(doc')
  BY <1>1, <1>2, <1>3, <1>6, ConcatFacts
<1>12. \A j \in 1..Len(pieces') : Fitting(pieces'[j].text, doc'[pieces'[j].sid])
  BY <1>2, <1>10 DEF Unmerged
<1>13. Placed(Said', cut', merged' \o pieces')
  BY <1>2, <1>7, <1>8, <1>9
<1>14. merged' = <<>> /\ <<>> \in Seq(Piece) /\ 1..Len(<<>>) = {}
  BY <1>1, <1>2
<1>15. /\ merged' \in Seq(Piece) /\ doc' \in Documents
       /\ \A j \in 1..Len(merged') :
            \/ 2 * (Len(merged'[j].text) - 1) =< 3 * TargetChars
            \/ Fitting(merged'[j].text, doc'[merged'[j].sid])
  BY <1>1, <1>2, <1>14
<1> QED BY <1>11, <1>12, <1>13, <1>14, <1>15 DEF ChunkInv, Unmerged

\* A piece becomes a chunk, or joins the last one (lines 96-106).
LEMMA MergeInv == ASSUME ChunkInv, Merge PROVE ChunkInv'
<1> DEFINE p == Head(pieces)
           n == Len(merged)
           L == merged \o pieces
<1>1. /\ doc \in Documents /\ cut \in 0..Len(doc) /\ cut = Len(doc)
      /\ pieces \in Seq(Piece) /\ pieces # <<>> /\ merged \in Seq(Piece)
      /\ Placed(Said, cut, L)
      /\ \A j \in 1..Len(pieces) : Unmerged(pieces[j])
      /\ \A j \in 1..n : 2 * (Len(merged[j].text) - 1) =< 3 * TargetChars \/ Unmerged(merged[j])
  BY DEF ChunkInv, Merge
<1>2. doc' = doc /\ cut' = cut /\ pieces' = Tail(pieces)
  BY DEF Merge
<1>3. /\ p \in Piece /\ Unmerged(p) /\ p = pieces[1] /\ Len(pieces) \in Nat /\ Len(pieces) >= 1
      /\ Tail(pieces) \in Seq(Piece) /\ Len(Tail(pieces)) = Len(pieces) - 1 /\ n \in Nat
      /\ \A j \in 1..(Len(pieces) - 1) : Tail(pieces)[j] = pieces[j + 1]
  <2>1. Len(pieces) \in Nat /\ Len(pieces) >= 1 /\ p = pieces[1] /\ n \in Nat
    BY <1>1
  <2>2. 1 \in 1..Len(pieces)
    BY <2>1
  <2>3. p \in Piece /\ Unmerged(p)
    BY <1>1, <2>1, <2>2
  <2>4. /\ Tail(pieces) \in Seq(Piece) /\ Len(Tail(pieces)) = Len(pieces) - 1
        /\ \A j \in 1..(Len(pieces) - 1) : Tail(pieces)[j] = pieces[j + 1]
    BY <1>1
  <2> QED BY <2>1, <2>3, <2>4
<1>4. \A j \in 1..Len(pieces') : Fitting(pieces'[j].text, doc'[pieces'[j].sid])
  <2> SUFFICES ASSUME NEW j \in 1..(Len(pieces) - 1) PROVE Unmerged(pieces[j + 1])
    BY <1>2, <1>3 DEF Unmerged
  <2>1. j + 1 \in 1..Len(pieces)
    BY <1>3
  <2> QED BY <1>1, <2>1
<1>5. /\ Said \in [1..Len(doc) -> Seq(Char)] /\ Len(doc) \in Nat /\ Said' = Said
      /\ \A k \in 1..Len(doc) : IsInjective(Said[k])
      /\ TargetChars \in Nat /\ OverlapChars \in Nat /\ Gap \notin Char
  BY <1>1, <1>2, SaysFacts, DocumentFacts DEF Said
<1>6. /\ L \in Seq(Piece) /\ Len(L) = n + Len(pieces)
      /\ \A i \in 1..n : L[i] = merged[i]
      /\ \A i \in 1..Len(pieces) : L[n + i] = pieces[i]
  BY <1>1, ConcatFacts
<1>7. CASE ~Joins(p)
  <2>1. merged' = Append(merged, p)
    BY <1>7 DEF Merge
  <2>2. /\ Append(merged, p) \in Seq(Piece) /\ Len(Append(merged, p)) = n + 1
        /\ \A i \in 1..n : Append(merged, p)[i] = merged[i]
        /\ Append(merged, p)[n + 1] = p
    BY <1>1, <1>3
  <2>3. Append(merged, p) \o Tail(pieces) = L
    BY <1>1, <1>3, SMTT(30)
  <2>4. \A j \in 1..Len(merged') : \/ 2 * (Len(merged'[j].text) - 1) =< 3 * TargetChars
                                    \/ Fitting(merged'[j].text, doc'[merged'[j].sid])
    <3> SUFFICES ASSUME NEW j \in 1..(n + 1)
                 PROVE  \/ 2 * (Len(Append(merged, p)[j].text) - 1) =< 3 * TargetChars
                        \/ Unmerged(Append(merged, p)[j])
      BY <1>2, <2>1, <2>2 DEF Unmerged
    <3>1. CASE j \in 1..n
      BY <1>1, <2>2, <3>1
    <3>2. CASE j = n + 1
      BY <1>3, <2>2, <3>2
    <3> QED BY <1>3, <3>1, <3>2
  <2>5. Placed(Said', cut', merged' \o pieces')
    BY <1>1, <1>2, <1>5, <2>1, <2>3
  <2> HIDE DEF p, n, L
  <2> QED BY <1>1, <1>2, <1>3, <1>4, <2>1, <2>2, <2>4, <2>5 DEF ChunkInv, Unmerged
<1>8. CASE Joins(p)
  <2> DEFINE q == merged[n]
             text == Join(q.text, p.text)
             M == [merged EXCEPT ![n].text = text]
             N == M \o Tail(pieces)
  <2>1. merged' = M
    BY <1>8 DEF Merge
  <2>2. /\ n >= 1 /\ n \in 1..n /\ q \in Piece /\ q.sid = p.sid
        /\ 2 * (Len(q.text) + Len(p.text)) =< 3 * TargetChars
    <3>1. merged # <<>> /\ Last(merged) = q
      BY <1>8 DEF Joins, Last
    <3>2. n >= 1
      BY <1>1, <3>1
    <3>3. n \in 1..n
      BY <1>3, <3>2
    <3>4. q \in Piece
      BY <1>1, <3>3
    <3> QED BY <1>8, <3>1, <3>2, <3>3, <3>4 DEF Joins
  <2>3. /\ q.text \in Seq(Alpha) /\ p.text \in Seq(Alpha) /\ q.sid \in Nat \ {0}
        /\ q = [sid |-> q.sid, text |-> q.text]
    BY <1>3, <2>2 DEF Piece
  <2>4. text \in Seq(Alpha) /\ Len(text) =< Len(q.text) + Len(p.text) + 1 /\ Len(text) \in Nat
    BY <2>3, JoinFacts
  <2>5. [q EXCEPT !.text = text] = [sid |-> q.sid, text |-> text]
    BY <2>3
  <2> HIDE DEF text
  <2>6. /\ M \in Seq(Piece) /\ Len(M) = n
        /\ \A i \in 1..(n - 1) : M[i] = merged[i]
        /\ M[n] = [sid |-> q.sid, text |-> text]
    <3>1. [sid |-> q.sid, text |-> text] \in Piece
      BY <2>3, <2>4 DEF Piece
    <3>2. M = [merged EXCEPT ![n] = [sid |-> q.sid, text |-> text]]
      BY <2>5
    <3> HIDE DEF M, q
    <3> QED BY <1>1, <1>3, <2>2, <3>1, <3>2
  <2> HIDE DEF M
  <2>7. /\ N \in Seq(Piece) /\ Len(N) = Len(L) - 1
        /\ \A i \in 1..n : N[i] = M[i]
        /\ \A i \in 1..(Len(pieces) - 1) : N[n + i] = Tail(pieces)[i]
    <3> DEFINE R == Tail(pieces)
    <3>1. R \in Seq(Piece) /\ Len(R) = Len(pieces) - 1 /\ Len(M) = n /\ M \in Seq(Piece)
      BY <1>3, <2>6
    <3> HIDE DEF L, n, R
    <3>2. /\ M \o R \in Seq(Piece) /\ Len(M \o R) = n + Len(R)
          /\ \A i \in 1..n : (M \o R)[i] = M[i]
          /\ \A i \in 1..Len(R) : (M \o R)[n + i] = R[i]
      BY <3>1, ConcatFacts
    <3>3. Len(L) - 1 = n + Len(R)
      BY <1>3, <1>6, <3>1
    <3> QED BY <3>1, <3>2, <3>3 DEF R
  <2> HIDE DEF N
  <2>8. \A i \in (n + 1)..(Len(L) - 1) : N[i] = L[i + 1]
    <3> SUFFICES ASSUME NEW i \in (n + 1)..(Len(L) - 1) PROVE N[i] = L[i + 1]
      OBVIOUS
    <3> DEFINE h == i - n
    <3>1. h \in 1..(Len(pieces) - 1) /\ n + h = i /\ h + 1 \in 1..Len(pieces) /\ n + (h + 1) = i + 1
      BY <1>3, <1>6
    <3> HIDE DEF h
    <3>2. N[i] = Tail(pieces)[h] /\ Tail(pieces)[h] = pieces[h + 1]
      BY <1>3, <2>7, <3>1
    <3>3. L[i + 1] = pieces[h + 1]
      BY <1>6, <3>1
    <3> QED BY <3>2, <3>3
  <2>9. /\ n \in 1..(Len(L) - 1) /\ L[n] = q /\ L[n + 1] = p
        /\ \A i \in 1..(n - 1) : N[i] = L[i]
        /\ N[n].sid = L[n].sid /\ N[n].text = Join(L[n].text, L[n + 1].text)
    <3>1. n \in 1..(Len(L) - 1) /\ 1 \in 1..Len(pieces)
      BY <1>3, <1>6, <2>2
    <3>2. L[n] = q /\ L[n + 1] = p
      BY <1>3, <1>6, <2>2, <3>1
    <3>3. \A i \in 1..(n - 1) : N[i] = L[i]
      <4>1. \A i \in 1..(n - 1) : i \in 1..n
        BY <1>3
      <4> HIDE DEF L, n
      <4> QED BY <1>6, <2>6, <2>7, <4>1
    <3>4. N[n] = [sid |-> q.sid, text |-> text]
      BY <2>2, <2>6, <2>7
    <3> QED BY <3>1, <3>2, <3>3, <3>4 DEF text
  <2>10. Placed(Said, cut, N)
    <3> DEFINE F == Said
    <3>1. /\ cut \in Nat /\ F \in [1..cut -> Seq(Char)] /\ \A k \in 1..cut : IsInjective(F[k])
          /\ Placed(F, cut, L) /\ L[n].sid = L[n + 1].sid
      BY <1>1, <1>5, <2>2, <2>9
    <3> HIDE DEF F, L, n
    <3> QED BY <1>5, <1>6, <2>7, <2>8, <2>9, <3>1, FusePlaced DEF F
  <2>11. \A j \in 1..Len(merged') : \/ 2 * (Len(merged'[j].text) - 1) =< 3 * TargetChars
                                     \/ Fitting(merged'[j].text, doc'[merged'[j].sid])
    <3> SUFFICES ASSUME NEW j \in 1..n
                 PROVE  2 * (Len(M[j].text) - 1) =< 3 * TargetChars \/ Unmerged(M[j])
      BY <1>2, <2>1, <2>6 DEF Unmerged
    <3>1. CASE j = n
      <4>1. Len(q.text) \in Nat /\ Len(p.text) \in Nat
        BY <2>3
      <4> DEFINE x == Len(q.text)
                 y == Len(p.text)
                 z == Len(text)
      <4>4. /\ x \in Nat /\ y \in Nat /\ z \in Nat /\ TargetChars \in Nat
            /\ z =< x + y + 1 /\ 2 * (x + y) =< 3 * TargetChars
        BY <1>5, <2>2, <2>4, <4>1
      <4> HIDE DEF x, y, z
      <4>2. 2 * (z - 1) =< 3 * TargetChars
        BY <4>4
      <4>3. M[j].text = text
        BY <2>6, <3>1
      <4> QED BY <4>2, <4>3 DEF z
    <3>2. CASE j \in 1..(n - 1)
      BY <1>1, <2>6, <3>2
    <3> QED BY <1>3, <3>1, <3>2
  <2>12. Placed(Said', cut', merged' \o pieces')
    BY <1>2, <1>5, <2>1, <2>10 DEF N
  <2> HIDE DEF p, n, L
  <2> QED BY <1>1, <1>2, <1>3, <1>4, <2>1, <2>6, <2>11, <2>12 DEF ChunkInv, Unmerged
<1> QED BY <1>7, <1>8

\* The invariant of the chunker, for every document and every limit.
THEOREM ChunkInvariant == ChunkSpec => []ChunkInv
<1>1. ChunkInv /\ [ChunkNext]_chunkVars => ChunkInv'
  <2> SUFFICES ASSUME ChunkInv, [ChunkNext]_chunkVars PROVE ChunkInv'
    OBVIOUS
  <2>1. CASE Split
    BY <2>1, SplitInv
  <2>2. CASE Merge
    BY <2>2, MergeInv
  <2>3. CASE UNCHANGED chunkVars
    <3>1. doc' = doc /\ cut' = cut /\ pieces' = pieces /\ merged' = merged
      BY <2>3 DEF chunkVars
    <3>2. Said' = Said
      BY <3>1 DEF Said
    <3> QED BY <3>1, <3>2 DEF ChunkInv, Unmerged
  <2> QED BY <2>1, <2>2, <2>3 DEF ChunkNext
<1> QED BY <1>1, ChunkInitInv, PTL DEF ChunkSpec

\* At the end every item is in merged.
LEMMA AllMerged ==
  ASSUME ChunkInv, Done
  PROVE  /\ Len(merged) \in Nat /\ DOMAIN merged = 1..Len(merged)
         /\ DOMAIN doc = 1..Len(doc) /\ Placed(Said, Len(doc), merged)
         /\ \A j \in 1..Len(merged) : /\ DOMAIN merged[j].text = 1..Len(merged[j].text)
                                       /\ merged[j].text \in Seq(Alpha)
                                       /\ Len(merged[j].text) \in Nat
<1>1. /\ doc \in Documents /\ cut = Len(doc) /\ pieces = <<>>
      /\ merged \in Seq(Piece) /\ Placed(Said, cut, merged \o pieces)
  BY DEF ChunkInv, Done
<1>2. merged \o pieces = merged
  BY <1>1
<1>3. ASSUME NEW j \in 1..Len(merged)
      PROVE  /\ DOMAIN merged[j].text = 1..Len(merged[j].text)
             /\ merged[j].text \in Seq(Alpha)
             /\ Len(merged[j].text) \in Nat
  <2>1. merged[j] \in Piece
    BY <1>1
  <2>2. merged[j].text \in Seq(Alpha)
    BY <2>1 DEF Piece
  <2> QED BY <2>2
<1>4. Len(merged) \in Nat /\ DOMAIN merged = 1..Len(merged) /\ DOMAIN doc = 1..Len(doc)
  BY <1>1, DocumentFacts
<1> QED BY <1>1, <1>2, <1>3, <1>4

\* A chunk that says a letter says the one before it earlier, or an earlier chunk does.
LEMMA WholeStep == ASSUME ChunkInv PROVE TextIsWhole
<1> SUFFICES ASSUME Done, NEW k \in DOMAIN doc
             PROVE  LET letters == Letters(doc[k])
                        places  == UNION {{j} \X DOMAIN merged[j].text :
                                            j \in {i \in DOMAIN merged : merged[i].sid = k}}
                        at(p)   == merged[p[1]].text[p[2]]
                    IN  /\ \A i \in DOMAIN letters : \E p \in places : at(p) = letters[i]
                        /\ \A p \in places : at(p) # Gap =>
                             \E i \in DOMAIN letters :
                               /\ at(p) = letters[i]
                               /\ i = 1 \/ \E r \in places : /\ at(r) = letters[i - 1]
                                                             /\ \/ r[1] < p[1]
                                                                \/ r[1] = p[1] /\ r[2] < p[2]
  BY DEF TextIsWhole
<1> DEFINE letters == Letters(doc[k])
           places  == UNION {{j} \X DOMAIN merged[j].text :
                               j \in {i \in DOMAIN merged : merged[i].sid = k}}
           at(p)   == merged[p[1]].text[p[2]]
           n == Len(merged)
<1>1. /\ n \in Nat /\ DOMAIN merged = 1..n /\ k \in 1..Len(doc)
      /\ Placed(Said, Len(doc), merged)
      /\ \A j \in 1..n : DOMAIN merged[j].text = 1..Len(merged[j].text)
  BY AllMerged
<1>2. /\ Said[k] = letters /\ letters \in Seq(Char) /\ DOMAIN letters = 1..Len(letters)
      /\ Len(letters) \in Nat
  <2>1. doc \in Documents
    BY DEF ChunkInv
  <2>2. Said[k] = letters /\ letters \in Seq(Char)
    BY <1>1, <2>1, SaysFacts, DocumentFacts
  <2> HIDE DEF letters
  <2> QED BY <2>2
<1>3. PICK b \in [1..n -> Nat], e \in [1..n -> Nat] : Placing(Said, Len(doc), merged, b, e)
  BY <1>1 DEF Placed
<1> DEFINE In(j) == j \in 1..n /\ merged[j].sid = k
<1>4. /\ \A j : In(j) => e[j] =< Len(letters) /\ Reads(letters, merged[j].text, b[j], e[j])
      /\ \A j : In(j) => \A x \in 1..b[j] : \E i \in 1..(j - 1) : Covers(merged, b, e, i, k, x)
      /\ \A x \in 1..Len(letters) : \E j \in 1..n : Covers(merged, b, e, j, k, x)
  <2> DEFINE F == Said
             L == merged
             d == Len(doc)
  <2>1. /\ \A j \in 1..n : e[j] =< Len(F[L[j].sid]) /\ Reads(F[L[j].sid], L[j].text, b[j], e[j])
        /\ \A j \in 1..n : \A x \in 1..b[j] : \E i \in 1..(j - 1) : Covers(L, b, e, i, L[j].sid, x)
        /\ \A h \in 1..d : \A x \in 1..Len(F[h]) : \E j \in 1..n : Covers(L, b, e, j, h, x)
    BY <1>3 DEF Placing
  <2>2. k \in 1..d /\ F[k] = letters
    BY <1>1, <1>2
  <2> HIDE DEF F, d, letters
  <2> QED BY <2>1, <2>2
<1>5. \A j, q : In(j) /\ q \in 1..Len(merged[j].text) => <<j, q>> \in places
  BY <1>1
<1>6. \A p \in places : /\ In(p[1]) /\ p[2] \in 1..Len(merged[p[1]].text) /\ p = <<p[1], p[2]>>
  BY <1>1
<1>7. \A j, q : at(<<j, q>>) = merged[j].text[q]
  OBVIOUS
<1> HIDE DEF letters, places, In
\* What an item covers is at some place of it.
<1>8. ASSUME NEW j \in 1..n, NEW x \in Nat, Covers(merged, b, e, j, k, x)
      PROVE  In(j) /\ \E q \in 1..Len(merged[j].text) : merged[j].text[q] = letters[x]
  <2>1. In(j) /\ b[j] < x /\ x =< e[j] /\ b[j] \in Nat /\ e[j] \in Nat
    BY <1>8 DEF Covers, In
  <2>2. x \in (b[j] + 1)..e[j]
    BY <2>1
  <2>3. Reads(letters, merged[j].text, b[j], e[j])
    BY <1>4, <2>1
  <2> QED BY <2>1, <2>2, <2>3 DEF Reads
<1>9. ASSUME NEW i \in 1..Len(letters) PROVE \E p \in places : at(p) = letters[i]
  <2>1. PICK j \in 1..n : Covers(merged, b, e, j, k, i)
    BY <1>4
  <2>2. i \in Nat
    OBVIOUS
  <2>4. In(j) /\ \E q \in 1..Len(merged[j].text) : merged[j].text[q] = letters[i]
    BY <1>8, <2>1, <2>2
  <2>5. PICK q \in 1..Len(merged[j].text) : merged[j].text[q] = letters[i]
    BY <2>4
  <2>3. <<j, q>> \in places
    BY <1>5, <2>4
  <2> QED BY <1>7, <2>3, <2>5
<1>10. ASSUME NEW p \in places, at(p) # Gap
       PROVE  \E i \in 1..Len(letters) :
                /\ at(p) = letters[i]
                /\ i = 1 \/ \E r \in places : /\ at(r) = letters[i - 1]
                                              /\ \/ r[1] < p[1]
                                                 \/ r[1] = p[1] /\ r[2] < p[2]
  <2> DEFINE j == p[1]
             q == p[2]
             t == merged[j].text
  <2>1. In(j) /\ j \in 1..n /\ q \in 1..Len(t) /\ at(p) = t[q]
    BY <1>6 DEF In
  <2>2. /\ e[j] =< Len(letters) /\ b[j] \in Nat /\ e[j] \in Nat
        /\ Reads(letters, t, b[j], e[j])
    BY <1>4, <2>1
  <2> HIDE DEF j, q, t
  <2>3. PICK i \in 1..e[j] : t[q] = letters[i]
    BY <1>10, <2>1, <2>2 DEF Reads
  <2>4. i \in 1..Len(letters) /\ i \in Nat
    BY <1>2, <2>2
  <2>5. ASSUME i # 1
        PROVE  \E r \in places : /\ at(r) = letters[i - 1]
                                 /\ \/ r[1] < j
                                    \/ r[1] = j /\ r[2] < q
    <3>1. CASE i >= b[j] + 2
      <4>1. i \in (b[j] + 2)..e[j]
        BY <2>2, <3>1
      <4>2. PICK r \in 1..(q - 1) : t[r] = letters[i - 1]
        BY <2>1, <2>2, <2>3, <4>1 DEF Reads
      <4>3. Len(t) \in Nat
        BY <2>1, AllMerged DEF t
      <4>4. r \in 1..Len(t) /\ r < q
        BY <2>1, <4>3
      <4>5. <<j, r>> \in places /\ at(<<j, r>>) = letters[i - 1]
        BY <1>5, <1>7, <2>1, <4>2, <4>4 DEF t
      <4> QED BY <4>4, <4>5
    <3>2. CASE ~(i >= b[j] + 2)
      <4>1. i - 1 \in 1..b[j] /\ i - 1 \in Nat
        BY <2>2, <2>5, <3>2
      <4>2. PICK h \in 1..(j - 1) : Covers(merged, b, e, h, k, i - 1)
        BY <1>4, <2>1, <4>1
      <4>3. h \in 1..n /\ h < j
        BY <1>1, <2>1
      <4>6. In(h) /\ \E r \in 1..Len(merged[h].text) : merged[h].text[r] = letters[i - 1]
        BY <1>8, <4>1, <4>2, <4>3
      <4>4. PICK r \in 1..Len(merged[h].text) : merged[h].text[r] = letters[i - 1]
        BY <4>6
      <4>7. <<h, r>> \in places
        BY <1>5, <4>4, <4>6
      <4>5. at(<<h, r>>) = letters[i - 1]
        BY <4>4
      <4> QED BY <4>3, <4>5, <4>7
    <3> QED BY <3>1, <3>2
  <2> QED BY <2>1, <2>3, <2>4, <2>5 DEF j, q
<1> QED BY <1>2, <1>9, <1>10 DEF letters, places

\* A letter of two chunks is of one section, and the earlier had read it.
LEMMA RepeatStep == ASSUME ChunkInv PROVE RepeatIsOverlap
<1> SUFFICES ASSUME Done, NEW j \in 2..Len(merged)
             PROVE  LET text     == merged[j].text
                        previous == merged[j - 1].text
                        before   == UNION {ToSet(merged[i].text) : i \in 1..(j - 1)}
                    IN  \E k \in 0..OverlapChars :
                          /\ k =< Len(text) /\ k =< Len(previous)
                          /\ \A q \in 1..k : text[q] = previous[Len(previous) - k + q]
                          /\ \A q \in DOMAIN text : text[q] \in before =>
                               text[q] = Gap \/ \E i \in 1..k : text[q] = text[i]
  BY DEF RepeatIsOverlap
<1> DEFINE text     == merged[j].text
           previous == merged[j - 1].text
           before   == UNION {ToSet(merged[i].text) : i \in 1..(j - 1)}
           n == Len(merged)
           F == Said
<1>1. /\ n \in Nat /\ Placed(F, Len(doc), merged)
      /\ \A i \in 1..n : /\ DOMAIN merged[i].text = 1..Len(merged[i].text)
                          /\ merged[i].text \in Seq(Alpha)
  BY AllMerged
<1>2. PICK b \in [1..n -> Nat], e \in [1..n -> Nat] : Placing(F, Len(doc), merged, b, e)
  BY <1>1 DEF Placed
<1>3. j \in 1..n /\ j > 1 /\ \A i \in 1..(j - 1) : i \in 1..n /\ i < j
  BY <1>1
<1> DEFINE f == F[merged[j].sid]
<1>4. Repeats(f, previous, text, b[j], OverlapChars)
  BY <1>2, <1>3 DEF Placing
<1>10. \A i \in 1..n : /\ merged[i].sid \in 1..Len(doc) /\ e[i] =< Len(F[merged[i].sid])
                       /\ Reads(F[merged[i].sid], merged[i].text, b[i], e[i])
  BY <1>2 DEF Placing
<1>11. \A i \in 1..n : i < j /\ merged[i].sid = merged[j].sid => e[i] =< b[j]
  BY <1>2, <1>3 DEF Placing
<1>5. PICK k \in 0..OverlapChars :
        /\ k =< Len(text) /\ k =< Len(previous)
        /\ \A q \in 1..k : text[q] = previous[Len(previous) - k + q]
        /\ \A q \in 1..Len(text), i \in 1..b[j] : text[q] = f[i] => \E r \in 1..k : text[r] = f[i]
  BY <1>4 DEF Repeats
<1>6. /\ \A s \in 1..Len(doc) : /\ F[s] \in Seq(Char) /\ IsInjective(F[s]) /\ Len(F[s]) \in Nat
      /\ \A s, u \in 1..Len(doc) : s # u => ToSet(F[s]) \cap ToSet(F[u]) = {}
  <2>1. doc \in Documents
    BY DEF ChunkInv
  <2>2. \A s \in 1..Len(doc) : F[s] = Letters(doc[s]) /\ F[s] \in Seq(Char) /\ IsInjective(F[s])
    BY <2>1, SaysFacts
  <2>3. \A s, u \in 1..Len(doc) : s # u => ToSet(F[s]) \cap ToSet(F[u]) = {}
    BY <2>1, <2>2, DocumentFacts
  <2>4. \A s \in 1..Len(doc) : Len(F[s]) \in Nat
    BY <2>2
  <2> QED BY <2>2, <2>3, <2>4
<1> HIDE DEF F
<1>7. ASSUME NEW q \in 1..Len(text), text[q] \in before, text[q] # Gap
      PROVE  \E r \in 1..k : text[q] = text[r]
  <2>1. PICK i \in 1..(j - 1) : text[q] \in ToSet(merged[i].text)
    BY <1>7
  <2> DEFINE t == merged[i].text
             g == F[merged[i].sid]
  <2>2. i \in 1..n /\ i < j /\ b[i] \in Nat /\ e[i] \in Nat /\ b[j] \in Nat /\ e[j] \in Nat
    BY <1>3
  <2>3. PICK r \in 1..Len(t) : t[r] = text[q]
    BY <1>1, <2>1, <2>2 DEF ToSet
  <2>4. /\ Reads(g, t, b[i], e[i]) /\ e[i] =< Len(g) /\ merged[i].sid \in 1..Len(doc)
        /\ Reads(f, text, b[j], e[j]) /\ e[j] =< Len(f) /\ merged[j].sid \in 1..Len(doc)
    <3>1. j \in 1..n
      BY <1>3
    <3> HIDE DEF n
    <3> QED BY <1>10, <2>2, <3>1
  <2>5. /\ f \in Seq(Char) /\ IsInjective(f) /\ Len(f) \in Nat
        /\ g \in Seq(Char) /\ Len(g) \in Nat
    BY <1>6, <2>4
  <2>6. PICK x \in 1..e[j] : text[q] = f[x]
    BY <1>7, <2>4 DEF Reads
  <2>7. PICK y \in 1..e[i] : text[q] = g[y]
    <3> DEFINE c == text[q]
    <3>1. c # Gap /\ t[r] = c
      BY <1>7, <2>3
    <3> HIDE DEF c, g, t
    <3>2. \E y \in 1..e[i] : c = g[y]
      BY <2>3, <2>4, <3>1 DEF Reads
    <3> QED BY <3>2 DEF c, g
  <2>8. x \in 1..Len(f) /\ y \in 1..Len(g)
    <3>1. e[j] =< Len(f) /\ e[i] =< Len(g) /\ Len(f) \in Nat /\ Len(g) \in Nat
      BY <2>4, <2>5
    <3> HIDE DEF f, g
    <3> QED BY <2>2, <3>1
  <2>9. merged[i].sid = merged[j].sid
    <3> DEFINE c == text[q]
    <3>4. x \in DOMAIN f
      BY <2>5, <2>8
    <3>5. y \in DOMAIN g
      BY <2>5, <2>8
    <3>1. c = f[x] /\ c = g[y] /\ x \in DOMAIN f /\ y \in DOMAIN g
      BY <2>6, <2>7, <3>4, <3>5
    <3> HIDE DEF c, f, g
    <3>2. c \in ToSet(f) /\ c \in ToSet(g)
      BY <3>1 DEF ToSet
    <3>3. c \in ToSet(F[merged[i].sid]) \cap ToSet(F[merged[j].sid])
      BY <3>2 DEF f, g
    <3> QED BY <1>6, <2>4, <3>3
  <2>10. x = y
    <3>1. g = f
      BY <2>9
    <3>3. f[x] = f[y]
      BY <2>6, <2>7, <3>1
    <3>4. x \in 1..Len(f) /\ y \in 1..Len(f) /\ DOMAIN f = 1..Len(f)
      BY <2>5, <2>8, <3>1
    <3> HIDE DEF f, g
    <3>2. x \in DOMAIN f /\ y \in DOMAIN f /\ f[x] = f[y]
      BY <3>3, <3>4
    <3> QED BY <2>5, <3>2 DEF IsInjective
  <2>11. x \in 1..b[j]
    <3>1. e[i] =< b[j]
      BY <1>11, <2>2, <2>9
    <3> QED BY <2>2, <2>10, <3>1
  <2> HIDE DEF f, text, before
  <2>12. \E v \in 1..k : text[v] = f[x]
    BY <1>5, <2>6, <2>11
  <2> QED BY <2>6, <2>12
<1>8. DOMAIN text = 1..Len(text)
  BY <1>1, <1>3
<1> HIDE DEF text, previous, before
<1>9. /\ k =< Len(text) /\ k =< Len(previous)
      /\ \A q \in 1..k : text[q] = previous[Len(previous) - k + q]
      /\ \A q \in DOMAIN text : text[q] \in before =>
           text[q] = Gap \/ \E i \in 1..k : text[q] = text[i]
  BY <1>5, <1>7, <1>8
<1> QED BY <1>9 DEF text, previous, before

\* A merged chunk is bounded by the guard of Joins, another as it was cut.
LEMMA SizeStep == ASSUME ChunkInv PROVE SizeBounded
<1> SUFFICES ASSUME Done, NEW j \in 1..Len(merged)
             PROVE  LET text     == merged[j].text
                        sentence == UNION {ToSet(p) : p \in ToSet(doc[merged[j].sid])}
                    IN  \/ 2 * (Len(text) - 1) =< 3 * TargetChars
                        \/ Len(text) - OverlapChars - 1 =< TargetChars
                        \/ \E s \in sentence : /\ Len(text) - OverlapChars - 1 =< Len(s)
                                                /\ ToSet(s) \subseteq ToSet(text)
  BY AllMerged DEF SizeBounded
<1>1. 2 * (Len(merged[j].text) - 1) =< 3 * TargetChars \/ Unmerged(merged[j])
  BY DEF ChunkInv
<1> QED BY <1>1 DEF Unmerged, Fitting, Sentences

\* The chunks of a section say all of it, in order, and nothing else (_split_long
\* and chunk_document lose, move and mix nothing).
THEOREM ChunksAreWhole == ChunkSpec => []TextIsWhole
BY ChunkInvariant, WholeStep, PTL

\* Two chunks share at most the overlap of neighbours (lines 73-77).
THEOREM ChunksRepeatTheOverlap == ChunkSpec => []RepeatIsOverlap
BY ChunkInvariant, RepeatStep, PTL

\* How long a chunk becomes, merged (line 101) or not (lines 72-78).
THEOREM ChunksAreBounded == ChunkSpec => []SizeBounded
BY ChunkInvariant, SizeStep, PTL
===============================================================================
