------------------------------- MODULE Crawler -------------------------------
(***************************************************************************)
(* services/crawler.py: the consumer of crawl.requests that fetches pages, *)
(* keeps their bytes in the blob store and their last hash in crawl_state, *)
(* publishes changed pages on docs.raw and adds the titles they link to.   *)
(*                                                                         *)
(* The pages of one batch are fetched concurrently and handled in the      *)
(* order they were requested; every write of handle_results goes to a      *)
(* store of its own (autocommit, files, producer queue), so the handler is *)
(* cut between them.  The web and the frontier are the environment.        *)
(***************************************************************************)
EXTENDS Integers, Sequences, FiniteSets

CONSTANTS Title,      \* page titles; doc_id maps them one to one to ids
          Seed,       \* titles crawl_state starts with
          Version,    \* page contents, told apart by content_hash
          Links,      \* titles each version links to
          Gone,       \* the page does not exist (404)
          Failed,     \* no usable answer: html is None
          Skipped,    \* CircuitOpen: the page was not asked for
          Absent,     \* no value yet
          MaxBatch,   \* BATCH
          Webs,       \* bound: what the server may answer at first
          MaxRequests, MaxEdits,        \* bounds: requests sent, changes of the web
          MaxCrashes, MaxFaults,        \* bounds: crashes; failed calls
          MaxOpen                       \* bound: times the open breaker is met

ASSUME LinksAssumption ==
  /\ Links \in [Version -> SUBSET Title] /\ Seed \subseteq Title
  /\ Webs \subseteq [Title -> Version \cup {Gone}]
ASSUME ResultAssumption ==
  /\ {Gone, Failed, Skipped, Absent} \cap Version = {}
  /\ Gone \notin {Failed, Skipped, Absent} /\ Failed \notin {Skipped, Absent}
ASSUME BatchAssumption == MaxBatch \in Nat

VARIABLES
  web,           \* what the server answers for each title
  requests,      \* the log of crawl.requests
  reqCommitted, reqPosition,  \* the group "crawler"
  results,       \* what fetch_batch has got, by offset
  cursor,        \* offset of the result being handled
  known,         \* titles with a row in crawl_state
  queued,        \* crawl_state.queued_at IS NOT NULL
  lastHash,      \* crawl_state.last_hash
  seen,          \* seen_titles, in memory
  blob,          \* version in each page's blob
  out,           \* the producer's local queue
  published,     \* the last message of docs.raw about each title
  handled,       \* history: offsets whose result was handled
  found,         \* history: the last page or 404 handled for each title
  behind,        \* history: titles a crash cut off between their writes, or whose
                 \* last message never got out, and that no message followed
  pc, edits, crashes, faults, opened

rows    == <<known, queued, lastHash>>
offsets == <<reqCommitted, reqPosition>>
bounds  == <<edits, crashes, faults, opened>>
vars    == <<web, requests, reqCommitted, reqPosition, results, cursor, known, queued,
             lastHash, seen, blob, out, published, handled, found, behind, pc, edits,
             crashes, faults, opened>>
progress == <<handled, found>>
history == <<handled, found, behind>>

Page    == Version \cup {Gone}
Result  == Page \cup {Failed, Skipped}
NoFetch == [i \in {} |-> Absent]

Init ==
  /\ web \in Webs
  /\ requests = <<>> /\ reqCommitted = 0 /\ reqPosition = 0
  /\ results = NoFetch /\ cursor = 1
  /\ known = Seed /\ queued = {}
  /\ lastHash = [t \in Title |-> Absent]
  /\ seen = {}
  /\ blob = [t \in Title |-> Absent]
  /\ out = <<>>
  /\ published = [t \in Title |-> Absent]
  /\ handled = {}
  /\ found = [t \in Title |-> Absent]
  /\ behind = {}
  /\ pc = "poll"
  /\ edits = 0 /\ crashes = 0 /\ faults = 0 /\ opened = 0

-------------------------------------------------------------------------------
(* The environment.                                                        *)

Edit(t, p) ==
  /\ edits < MaxEdits /\ web[t] # p
  /\ web' = [web EXCEPT ![t] = p]
  /\ edits' = edits + 1
  /\ UNCHANGED <<requests, offsets, results, cursor, rows, seen, blob, out, published,
                 history, pc, crashes, faults, opened>>

\* frontier.enqueue, for a row it found due.
Request(t) ==
  /\ Len(requests) < MaxRequests
  /\ t \in known
  /\ requests' = Append(requests, t)
  /\ queued' = queued \cup {t}
  /\ UNCHANGED <<web, offsets, results, cursor, known, lastHash, seen, blob, out,
                 published, history, pc, bounds>>

\* The producer delivers its queue in order.
Deliver ==
  /\ out # <<>>
  /\ published' = [published EXCEPT ![Head(out).title] = Head(out).page]
  /\ out' = Tail(out)
  /\ UNCHANGED <<web, requests, offsets, results, cursor, rows, seen, blob, history, pc,
                 bounds>>

\* The retries are used up or the message has timed out: send() has left no
\* callback that would be told.
DeliveryFails ==
  /\ out # <<>> /\ faults < MaxFaults
  /\ out' = Tail(out)
  /\ behind' = behind \cup ({Head(out).title} \ {out[i].title : i \in 2..Len(out)})
  /\ faults' = faults + 1
  /\ UNCHANGED <<web, requests, offsets, results, cursor, rows, seen, blob, published,
                 progress, pc, edits, crashes, opened>>

-------------------------------------------------------------------------------
(* The loop of main.                                                       *)

Poll ==
  /\ pc = "poll"
  /\ \E k \in 1..MaxBatch :
       /\ reqPosition + k =< Len(requests)
       /\ reqPosition' = reqPosition + k
  /\ cursor' = reqPosition + 1
  /\ results' = NoFetch
  /\ pc' = "fetch"
  /\ UNCHANGED <<web, requests, reqCommitted, rows, seen, blob, out, published,
                 history, bounds>>

Batch == cursor..reqPosition

\* The breaker is open: sleep and go on with the next poll.  The batch is not
\* kept, and the next commit passes its offsets.
DropBatch ==
  /\ pc = "fetch" /\ results = NoFetch
  /\ opened < MaxOpen
  /\ opened' = opened + 1
  /\ pc' = "poll"
  /\ UNCHANGED <<web, requests, offsets, results, cursor, rows, seen, blob, out,
                 published, history, edits, crashes, faults>>

\* One task of fetch_batch ends; the tasks end in any order.
FetchedWith(i, r) == results' = [j \in DOMAIN results \cup {i} |->
                                   IF j = i THEN r ELSE results[j]]

Fetch(i) ==
  /\ pc = "fetch" /\ i \in Batch \ DOMAIN results
  /\ \/ FetchedWith(i, web[requests[i]]) /\ UNCHANGED <<faults, opened>>
     \/ /\ faults < MaxFaults /\ faults' = faults + 1
        /\ FetchedWith(i, Failed) /\ UNCHANGED opened
     \/ /\ opened < MaxOpen /\ opened' = opened + 1
        /\ FetchedWith(i, Skipped) /\ UNCHANGED faults
  /\ UNCHANGED <<web, requests, offsets, cursor, rows, seen, blob, out, published,
                 history, pc, edits, crashes>>

Gathered ==
  /\ pc = "fetch" /\ DOMAIN results = Batch
  /\ pc' = "handle"
  /\ UNCHANGED <<web, requests, offsets, results, cursor, rows, seen, blob, out,
                 published, history, bounds>>

Handling  == pc = "handle" /\ cursor =< reqPosition
Requested == requests[cursor]
Got       == results[cursor]

MutantNextResult ==
  cursor' = cursor /\ pc' = "handle" /\ UNCHANGED history
NextResult ==
  /\ cursor' = cursor + 1 /\ pc' = "handle"
  /\ UNCHANGED behind
  /\ handled' = handled \cup {cursor}
  /\ found' = IF Got \in Page THEN [found EXCEPT ![Requested] = Got] ELSE found

\* None: counted as failed, the row is left as it is (still queued).
HandleSkipped ==
  /\ Handling /\ Got = Skipped
  /\ NextResult
  /\ UNCHANGED <<web, requests, offsets, results, rows, seen, blob, out, published, bounds>>

HandleFailed ==
  /\ Handling /\ Got = Failed
  /\ queued' = queued \ {Requested}
  /\ NextResult
  /\ UNCHANGED <<web, requests, offsets, results, known, lastHash, seen, blob, out,
                 published, bounds>>

\* 404: the row is rescheduled, its last_hash kept; downstream is told.
HandleGone ==
  /\ Handling /\ Got = Gone
  /\ queued' = queued \ {Requested}
  /\ out' = Append(out, [title |-> Requested, page |-> Gone])
  /\ NextResult
  /\ UNCHANGED <<web, requests, offsets, results, known, lastHash, seen, blob,
                 published, bounds>>

MutantSameContent == lastHash[Requested] # Absent
SameContent == lastHash[Requested] = Got

HandleUnchanged ==
  /\ Handling /\ Got \in Version /\ SameContent
  /\ queued' = queued \ {Requested}
  /\ NextResult
  /\ UNCHANGED <<web, requests, offsets, results, known, lastHash, seen, blob, out,
                 published, bounds>>

\* New content, in four steps: the blob, the message, the row, the links.
MutantBlobAfter(t, p) == IF blob[t] = Absent THEN [blob EXCEPT ![t] = p] ELSE blob
BlobAfter(t, p) == [blob EXCEPT ![t] = p]

PutBlob ==
  /\ Handling /\ Got \in Version /\ ~SameContent
  /\ blob' = BlobAfter(Requested, Got)
  /\ pc' = "send"
  /\ UNCHANGED <<web, requests, offsets, results, cursor, rows, seen, out, published,
                 history, bounds>>

Send ==
  /\ pc = "send"
  /\ out' = Append(out, [title |-> Requested, page |-> Got])
  /\ behind' = behind \ {Requested}
  /\ pc' = "store"
  /\ UNCHANGED <<web, requests, offsets, results, cursor, rows, seen, blob, published,
                 progress, bounds>>

StoreHash ==
  /\ pc = "store"
  /\ lastHash' = [lastHash EXCEPT ![Requested] = Got]
  /\ queued' = queued \ {Requested}
  /\ pc' = "harvest"
  /\ UNCHANGED <<web, requests, offsets, results, cursor, known, seen, blob, out,
                 published, history, bounds>>

\* Only titles not seen by this process are inserted (ON CONFLICT DO NOTHING).
MutantNewLinks == IF Requested \in seen THEN {} ELSE Links[Got] \ seen
NewLinks == Links[Got] \ seen

Harvest ==
  /\ pc = "harvest"
  /\ seen' = seen \cup NewLinks
  /\ known' = known \cup NewLinks
  /\ NextResult
  /\ UNCHANGED <<web, requests, offsets, results, queued, lastHash, blob, out, published,
                 bounds>>

\* producer.flush() returns when the queue is empty or after thirty seconds, and
\* the number of messages left, which it returns, is not looked at.
Flush ==
  /\ pc = "handle" /\ cursor > reqPosition
  /\ pc' = "commit"
  /\ UNCHANGED <<web, requests, offsets, results, cursor, rows, seen, blob, out,
                 published, history, bounds>>

Commit ==
  /\ pc = "commit"
  /\ reqCommitted' = reqPosition
  /\ pc' = "poll"
  /\ UNCHANGED <<web, requests, reqPosition, results, cursor, rows, seen, blob, out,
                 published, history, bounds>>

\* commit() swallows _ASSIGNMENT_LOST; the partition comes back at the
\* committed offset.
CommitLost ==
  /\ pc = "commit" /\ faults < MaxFaults
  /\ reqPosition' = reqCommitted
  /\ pc' = "poll"
  /\ faults' = faults + 1
  /\ UNCHANGED <<web, requests, reqCommitted, results, cursor, rows, seen, blob, out,
                 published, history, edits, crashes, opened>>

\* Where a restarted consumer resumes.
MutantResumeAt == reqPosition
ResumeAt == reqCommitted

\* Any exception of the loop ends the process; so does a crash.
Crash ==
  /\ crashes < MaxCrashes
  /\ reqPosition' = ResumeAt
  /\ results' = NoFetch
  /\ seen' = {} /\ out' = <<>>
  /\ pc' = "poll"
  /\ crashes' = crashes + 1
  /\ behind' = behind \cup {out[i].title : i \in DOMAIN out}
                       \cup (IF pc \in {"send", "store", "harvest"} THEN {Requested} ELSE {})
  /\ UNCHANGED <<web, requests, reqCommitted, cursor, rows, blob, published, progress,
                 edits, faults, opened>>

-------------------------------------------------------------------------------
(* The specifications.                                                     *)

Handle == \/ HandleSkipped \/ HandleFailed \/ HandleGone \/ HandleUnchanged
          \/ PutBlob \/ Send \/ StoreHash \/ Harvest

FetchStep == DropBatch \/ Gathered \/ \E i \in Batch : Fetch(i)

MessageLeaves == Deliver \/ DeliveryFails

CrawlerStep == Poll \/ FetchStep \/ Handle \/ MessageLeaves \/ Flush \/ Commit \/ CommitLost

Environment == \E t \in Title : Request(t) \/ \E p \in Page : Edit(t, p)

Next == CrawlerStep \/ Environment \/ Crash

Spec == Init /\ [][Next]_vars

Fairness == WF_vars(Poll) /\ WF_vars(FetchStep) /\ WF_vars(Handle) /\ WF_vars(Flush)
            /\ WF_vars(Commit) /\ WF_vars(MessageLeaves)

FairSpec == Spec /\ Fairness

-------------------------------------------------------------------------------
(* Properties.                                                             *)

\* Every request is served and nothing is in flight, and t is not behind.  What
\* is behind may stay so for good: a page whose last_hash is stored but whose
\* message was lost counts as unchanged when it is fetched again, until it does
\* change; the message of that change ends it.
AtRest(t) == pc = "poll" /\ out = <<>> /\ reqCommitted = Len(requests) /\ t \notin behind

\* The blob the last message about a page refers to holds that page's bytes:
\* what the parser reads through blob_ref is what content_hash was made from.
BlobIsPublished ==
  \A t \in Title : AtRest(t) /\ published[t] \in Version => blob[t] = published[t]

\* The last message of docs.raw about a page says what the crawler last found
\* there: calling a page unchanged is right, because downstream has it.  There are
\* two exceptions: the pages that are behind, and, because a 404 leaves last_hash
\* in place, a page that comes back exactly as it was last stored: it stays
\* deleted downstream.
PublishedIsFound ==
  \A t \in Title : AtRest(t) /\ found[t] # Absent =>
    published[t] = found[t] \/ (published[t] = Gone /\ found[t] = lastHash[t])

\* The links of every stored page are in the frontier, although seen_titles
\* skips the insert of every title this process has met.
LinksAreKnown ==
  \A t \in Title : AtRest(t) /\ lastHash[t] # Absent => Links[lastHash[t]] \subseteq known

\* main commits "only after processing"; the open breaker is the exception.
\* Only it costs requests, and at most a batch each time it is met: through
\* crashes and failed fetches every other committed request had its result
\* handled.
BreakerLossBounded ==
  Cardinality((1..reqCommitted) \ handled) =< MaxBatch * opened

\* The consumer in the end has polled every request and rests, with no message
\* left in the producer; unless the breaker dropped the last batch, it has committed
\* them too.
RequestsDrain ==
  <>[](/\ pc = "poll" /\ reqPosition = Len(requests)
       /\ out = <<>> /\ (opened = 0 => reqCommitted = Len(requests)))
===============================================================================
