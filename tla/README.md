# A verification development for namuwiki-rag

The repository crawls a wiki, cuts its pages into chunks, indexes the chunks in a
vector database and answers searches over them, with a graph of links and typed
relations beside the index. This directory holds TLA+ modules that model the
programs, TLC configurations that check them on small instances, and theorems that
TLAPS proves for every value of the constants.

Paths below are relative to the repository: `services/` holds the long-running
programs, `src/namuwiki/` the library, `scripts/` the jobs started by hand or at
log-on. `PROJECT.json` maps each definition to the lines it models, and lists the
runs, a mutant for each property, the hazards and the theorems.

## 1. The system

```
 seed_loader ──► crawl_state ◄─────────────┐
                     │                     │ last_hash, links, failures
 sidebar ─► frontier ┤                     │
                     └─► crawl.requests ─► crawler ─► blob store (files)
                                             │            │
                                             └► docs.raw ─┤
                                                          ▼
                              documents, chunks ◄────── parser
                                  ▲                        │
                      embedded_at │                        └► chunks.ready
                                  │                               │
                               embedder ◄──────────────────────────┘
                                  │
                                  └──► Qdrant ◄── search API ──► PostgreSQL
                                                                    ▲
   extract_relations, classify_entities, pagerank, fold_redirects, ─┘
   refresh_categories, repair_*: batch jobs on the same tables
```

Four programs are joined by Kafka topics. Each polls a batch, handles it, and
commits the offset afterwards, so that a crash repeats work and should lose none.
No transaction spans two of the stores: PostgreSQL, the files, the producer's local
queue, Kafka's offsets and Qdrant. Everything hard about the system is in what can
be seen between two of them.

| component | state | operations | talks to |
|---|---|---|---|
| seed loader (`services/seed_loader.py`) | rows of crawl_state | one insert of sampled titles | PostgreSQL |
| frontier (`services/frontier.py`) | crawl_state (next_due_at, queued_at, fail_count, priority) | poll the sidebar, mark_changed, due_rows, enqueue | crawl.requests, PostgreSQL |
| fetch policy (`src/namuwiki/crawl.py`) | next slot, failures, open-until | acquire, record, is_open, fetch_document | the wiki |
| crawler (`services/crawler.py`) | offset, seen_titles, crawl_state, blobs | fetch_batch, handle_results | crawl.requests, docs.raw, files |
| Kafka adapter, poll loop (`kafka_io.py`, `runtime.py`) | offsets, position, local queue | poll, send, flush, commit | all of them |
| parser (`services/parser.py`) | documents, chunks, redirects, canaries | handle, _write, delete_document | docs.raw, chunks.ready, files |
| chunker, extractor (`chunker.py`, `extract.py`) | none | text to chunks, HTML to a document | parser |
| embedder (`services/embedder.py`) | pending, to_delete, embedded_at | add, flush, watchdog, wait_for_vram | chunks.ready, embed.dlq, Qdrant |
| vector index (Qdrant) | points | upsert, delete, query | embedder, API |
| search API (`services/api.py`) | none of its own | search, path, graph, entity, facts | Qdrant, PostgreSQL |
| knowledge graph (`relations.py`, `entity_types.py`, three scripts) | relations, entity_type, categories | refresh, extract, classify, facts_for | PostgreSQL, files |
| PageRank, communities, priorities | pagerank, community, priority | batch jobs over the link graph | PostgreSQL |
| start-up task (`autostart_embed.py`, `repair_unembedded.py`) | its launcher, the round | run the embedder, count, republish | embedder, chunks.ready |
| redirect folding, chunkless repair | documents, redirects, crawl_state | delete aliases, requeue, reparse | parser's code |
| set-up, smoke tests, benchmarks, web pages | none | one-off or read-only | |

What makes each of them correct:

* **embedder** – a row without embedded_at was sent as a dead letter or is still
  announced ahead of the committed offset; a row with embedded_at has a point with its
  content; points of deleted rows go away; in the end nothing waits.
* **parser** – a document has all the chunks of one version; for a committed page that is
  not in the database a dead letter was sent; chunks.ready tells the same story as the
  chunk rows; the canary's alarm is about the page as it was last fetched.
* **crawler** – the last message about a page says what was last found there and
  refers to a blob with those bytes, unless a crash or a lost message left the page
  behind; the links of a stored page are known; every request is served except what the
  open breaker drops.
* **fetch policy** – slots are spaced however tasks interleave; bursts are bounded;
  the breaker opens exactly when failures in a row reach the threshold within the
  window, and then it stops requests.
* **frontier** – a reported edit stays pursued until it is fetched; missed edits are
  caught in the end by revisits.
* **path search** – a path returned is real and shortest; near pages are found.
* **chunker** – a section's chunks hold its text, in order, repeat what they should and
  no more, and are not too long.
* **link graph, priorities** – row i of the compressed matrix is document i, whatever is
  written or rewritten between the queries that build it; reported pages stay before
  ranked ones.
* **knowledge graph** – once the three jobs have followed the pages, the relations, the
  classes and the facts shown are those of the pages, whatever wrong categories were
  stored before.
* **search** – PageRank settles ties and nothing else; the filter of the request
  holds for every hit.

What is hard about them: the programs interleave on the same rows under autocommit
(frontier and crawler, parser and embedder, jobs and everybody); crashes fall between
two stores; messages are delivered late or, after an unnoticed flush timeout, not at
all; the embedder reads rows, computes for minutes and then marks them; the watchdog
kills the process at any of its steps; a lost partition turns a commit into nothing;
failure counters, limits and in-flight counts cut work off.

## 2. The modules

| module | models | composed with |
|---|---|---|
| `SearchIndex` | abstract: rows, points and the promise that a row is searchable | implemented by `Embedder` |
| `Embedder`, `MCEmbedder`, `EmbedderProofs` | embedder.py, the consumer side of kafka_io.py, PollLoop with its buffered first batch | the parser as environment |
| `Autostart`, `MCAutostart` (proofs in `EmbedderProofs`) | autostart_embed.py and repair_unembedded.py, the exit of `--once` | extends `Embedder` |
| `Replay`, `MCReplay` | `--from-beginning` over the compacted log, into a new collection | extends `Embedder` |
| `Chunker`, `MCChunker` (proofs in `DocParserProofs`) | chunker.py | the parser calls it for each document |
| `DocParser`, `MCDocParser`, `DocParserProofs` | parser.py with the canary watch, the producer side of kafka_io.py | the crawler as environment |
| `Crawler`, `MCCrawler`, `CrawlerProofs` | crawler.py, the blob store | web and frontier as environment |
| `FetchPolicy`, `FetchPolicyProofs` | RateLimiter, CircuitBreaker, the semaphore | |
| `Frontier`, `MCFrontier`, `FrontierProofs` | frontier.py against the crawl_state side of the crawler | crawler as three actions |
| `LinkGraph` | pagerank.build_graph | the parser and fold_redirects as environment |
| `Ranking`, `MCRanking`, `RankingProofs` (also of `LinkGraph`) | the write-back of pagerank.py, prioritize_frontier.py, the priorities the frontier and the crawler write | extends `LinkGraph` |
| `EntityTypes` | relations.py, entity_types.py, as operators | |
| `KnowledgeGraph`, `MCKnowledgeGraph`, `KnowledgeGraphProofs` | refresh_categories, extract_relations, classify_entities, facts_for | extends `EntityTypes` |
| `Search`, `MCSearch` | hybrid_search and /api/search, the query of neighbor_doc_ids | the writers as environment |
| `GraphPath` | api.graph_path | |
| `Api`, `MCApi`, `ApiProofs` | a request for either endpoint | extends `Search`, instantiates `GraphPath` |

How state and actions correspond to the code:

* **Embedder.** `ready` is the log of chunks.ready, `committed` and `position` the
  offsets, `fetched` how far the records go that were buffered while the assignment was
  awaited (`AwaitPoll`, `EndAwait`), `pending` and `toDelete` the fields of `Batcher`,
  `row` and `embeddedAt` the columns of chunks, `qdrant` the collection. A flush is cut
  at each outside call: `Poll`, `DeletePoints`, `FilterDone` (the query for what is
  embedded already), `Encode`, `Upsert`, `Mark`, `Commit`. `FlushFails` is the `except`
  of the loop: the batch is put in the producer's local queue, `outbox`. `FlushProducer`
  returns whatever is left in it, as the code ignores the number `flush` returns, and the
  offset is committed next. Meanwhile, or later, a letter reaches embed.dlq
  (`DeliverLetter`), is given up by the client with nobody told (`DeliveryFails`), or ends
  with the process (`ProducerEnds`, in `Crash` and wherever the task's embedder exits);
  `dropped` remembers those that got lost after they were committed. `CommitLost` is the
  commit after the partition was lost. `Crash` is any death, `os._exit` of the watchdog included.
  `IdleFlush` is the flush on an empty poll.
* **Replay.** `Compact` is Kafka's log cleaner: of the messages with one key the last is
  kept. `NewCollection` is init_stack after the model was changed, `FromBeginning` the
  seek.
* **Chunker.** A section is a sequence of paragraphs of sentences of characters, each of
  which occurs once, so that a copy is seen; some of them may be white space, which an
  overlap that begins with it loses (`Stripped`). `SplitLong` is `_split_long`, whose two
  loops fill buffers in the same way (`Pack`, a turn of which is `Put`), with and without
  overlap; `Split` is a turn of the first loop of chunk_document and `Merge` one of the
  second.
* **DocParser.** One message of docs.raw is handled by `Handle`'s steps: the skip of an
  unchanged or unreadable page, the transaction with its messages put in the local
  queue `out` before it commits, a deletion. `Deliver` is the producer's thread. A page
  is too short by the length of its text, headings included (`Chars`, `MinBody`), and has
  the chunks its sections are cut into (`ChunksOf`), which may be none: a page of headings
  alone is stored as a row without chunks. Dead letters wait in `dlqOut` beside `out`,
  and reach parse.dlq (`parseDlq`) or are lost (`dlqLost`), also after their offset is
  committed.
  `announced` is the fold of chunks.ready: what a reader at its end holds.
  `CheckCanary` writes `baseline` and `alarms`, at once, before the transaction.
* **Crawler.** `results` are the answers of `fetch_batch` in request order, then
  `handle_results` is cut after the blob, the message, the row and the links. `out` is
  the producer's queue, which `Flush` does not wait for and whose messages are delivered
  or given up at any time, after the commit too; `behind` are the pages that a crash
  between two writes or a lost message has cut off, until a new message about them.
* **FetchPolicy.** `Task` is one coroutine; a step is what it does between two awaits.
  `now` is the monotonic clock; a sleep ends no earlier than asked and maybe later.
* **Frontier.** Timestamps are what the queries make of them: due or not; queued
  never, within the hour or before. `Store` is what the crawler writes back.
* **Ranking.** `priority` is the column (0 without a row), `stage` and `tier` are what
  the two scripts have done; each of their statements is a step of its own.
* **GraphPath.** One hop reads the neighbours of the smaller side, then adds them one
  by one in any order of the database.
* **LinkGraph, KnowledgeGraph, Search.** Each query is a step, and in between come the
  writes of the other programs. In `LinkGraph` these store new pages and rewrite the links
  of listed ones (`AddDoc`, `Rewrite`); `snapshot` is what the one query of the scan sees.
  In `KnowledgeGraph` `current` says which results have followed the pages since somebody
  else wrote, and `outdated` whose relations of which source were once right and are not
  any more, by an edit, a deletion or a refresh that replaced a category. `FactsFor` is the
  set of answers the query of facts_for may give: its LIMIT is `FactLimit`.

Data is abstracted to what properties tell apart: a page, a chunk and a text are model
values told apart by their hash; doc_id, chunk_id and point_id are injective functions
and stand for what they hash.

## 3. The runs

Every run is exhaustive for its bounds. `TypeOK` of `Embedder` is proved and not run;
`FetchPolicy` has one that its proofs rest on. "Dies" and "fails" bound crashes and
failed calls.

| run | bounds | what it shows |
|---|---|---|
| `Embedder` | 2 chunks, 2 contents, batch 2, 3 messages, dies 1, fails 2 | `NoSilentLoss`, `BatchAccounted`, `EventuallyIndexed`, with the parser rewriting rows at any moment |
| `Autostart` | 2 chunks, 2 contents, batch 2, 4 messages, 2 rounds, dies 1, fails 1, 1 outage | with the parser at rest while the task runs: `EmbeddedIsCurrent`, `DrainedHasNoOrphan`, `IndexSpec` (the refinement of `SearchIndex`); when the task removes itself everything is indexed (`FinishedIsIndexed`); it does in the end (`JobFinishes`) |
| `Chunker` | target 9, overlap 2, short below 5; 1 section of up to 3 paragraphs or 2 of up to 2, of 1 or 2 sentences of 1, 2, 5 or 10 characters, the 4th and 9th of them white space | `TextIsWhole`, `RepeatIsOverlap`, `SizeBounded` |
| `DocParser` | a canary alias and its page, 4 versions of which one is all headings and one too short, batch 2, 3 messages, dies 1, fails 1, a row that lost its chunks | `DocumentIsWhole`, `CommittedIsStored`, `ReadyMatchesRows`, `CanaryIsCurrent`, `RawDrains` |
| `Crawler` | 2 titles, the second linked from one version of the first, which may not exist at first, batch 2, 3 requests, 2 changes of the web, dies 1, fails 1, breaker met once | `PublishedIsFound`, `BlobIsPublished`, `LinksAreKnown`, `BreakerLossBounded`, `RequestsDrain` |
| `FetchPolicy` | 4 tasks, 2 at once, 2 batches, clock to 6, threshold 2 | `SlotsSpaced`, `BurstBounded`, `BackedOff`, `OpensOnOutage` |
| `Frontier` | one page, 2 edits, limit of 2 failures, 1 exception, 1 lost request, dies 1 | `ReportedIsPursued`, `EditsCaught`; no deadlock |
| `Ranking` | all link sets of 3 titles one of which is chrome, 4 edges, 2 writes of the others (rewritten links among them) at any moment, 2 tiers | `RowsComplete`, `DocsAreThemselves`, `HighestTierWins`, `EditsStayFirst`, `CentralComeFirst` |
| `KnowledgeGraph` | 2 titles, one a calendar page, an alias, 3 pages one of which has its class from categories that may be stored wrong at first, 1 edit, batches of 1, 2 facts shown | `RelationsFollowPages`, `TypesFollowPages`, `PersonFactsAreServed`; no deadlock |
| `Api` | searches: 3 documents, 4 chunks, 2 candidates, top 1, 1 write during the request; paths: all graphs of six pages and a hidden one, up to symmetry, 5 hops, frontiers of 2 | `NoHitTwice`, `ScoreDecides`, `CentralFirst`; `PathIsShortest`, `NearIsFound` |
| `SearchExpanded` | the searches of `Api` | `CategoryNarrows` is violated: see section 6 |
| `Replay` | 2 chunks of a document, 3 messages, no failure | `ReplayRestores` is violated: see section 6 |

Why the bounds are enough for what is asked. In the pipeline modules a property is
about one page or chunk, and about what another one in the same batch does to it: two
of each, a batch of two and a log of three (in `Autostart` of four) reach a write, a
tombstone and a re-creation within one batch and across two, with a replay of
either. Two faults of the embedder are a failed flush and, before, between or after, a
lost commit or a second failed flush; giving up a letter is not bounded. In `DocParser` a
page that cannot be extracted at all is one whose handling fails: the two differ for the
canary alone, and the proof of `CanaryIsCurrent` has both. One death at every step is a death at *any* step; a second one after a replay
begins again from a committed offset and the same stores, a state the first one
reaches too, with the log one entry further. In `FetchPolicy` four tasks for two
places fill the semaphore, empty it and fill it again; six units of time cover an
opening, the cooldown of three and a second opening. In `Api` six pages hold every path of up to five links and every way in which two fronts of different size
can meet, and frontiers of three and four pages of which two are read (`capped`); the hidden page stands for any number, none of which is ever expanded.
Its searches cap candidates, neighbours and hits below what is there, so that every cut
leaves something out. `Chunker` scales 850, 128 and 200 down to 9, 2 and 5 with their
order kept; its lengths fall below, between and above these, two and three of them
around each limit, and three paragraphs fill two buffers and start a third. In `Ranking`
three titles can be in four different orders of links, the tiers are two and the
floor, and two writes put a report, a new row, new links or a deletion between any two
statements. In `KnowledgeGraph` the admiral and the realm have infoboxes that decide their
class, one of them with a stray row; the infobox of the battle decides nothing, and its
categories say event, or person as an older extractor cut them, so that a refresh, its
omission and its result decide a class; two facts are fewer than two pages have.
`Frontier` has one page: all it says is about one row, and
requests of other pages act on it only through the in-flight count, which may block
`Refill` (hence strong fairness) and through priorities, which are not modelled.

`CHECK_DEADLOCK FALSE` stands where the instance really ends: the bounds on messages,
edits, batches or the clock are used up (`Embedder`, `Replay`, `DocParser`, `Crawler`,
`FetchPolicy`, `Ranking`), the task has uninstalled itself (`Autostart`), the computation
has returned (`Api`, `SearchExpanded`, `Chunker`). `Frontier` and `KnowledgeGraph` never
end, and deadlock is checked there.

For each property of a passing run, PROJECT.json has a mutant: a definition of the
model changed the way a slip in the code would change it (a dropped guard, a compare
by length, a resume at the position instead of the committed offset), for which TLC finds the property violated.

### Fairness

* `Embedder`, `DocParser`, `Crawler`: weak fairness of each step of the loop. The loops
  have no state they wait in for ever: polls time out, the watchdog kills an encode
  that hangs, flush has a timeout, and a process that dies is started again by hand
  or by the start-up task. `wait_for_vram` has no timeout where the embedder calls it:
  the models assume that the other program frees the GPU in the end. Nothing is
  assumed of faults, crashes, evictions or the environment's writes.
* `Embedder`, `DocParser`, `Crawler` also: what is in the producer's queue in the end is
  delivered or given up (`message.timeout.ms`), for as long as the process lives. Which of
  the two is left open, but that `DocParser` bounds what is given up. `Flush` of the embedder
  and of the crawler may return at any moment.
* `Frontier`: weak fairness of its loop, of the crawler's `Store`, of clocks (a row
  falls due, an hour passes) and of delivery; strong fairness of `Refill` (its turn
  comes once a minute, and what blocks it comes and goes) and of `Take` (each
  partition is read in order, but a page shares its partition).
* `Autostart`: somebody logs on again, the database comes back, programs that were
  started take their steps.
* `FetchPolicy`, `Chunker`, `Ranking`, `KnowledgeGraph`, `Api` are checked for safety
  alone.

## 4. What is proved

TLAPS checks these for every number of chunks, contents, pages, tasks, titles and tiers
and every bound. The only assumptions are the named ASSUMEs of the modules, which TLC
evaluates in each run: bounds are naturals; `Absent` and the answers of the web are told
apart from contents; a positive concurrency; finitely many chunks, titles and pages; sections and
sentences that are not empty, whose characters are told apart; links between two different pages; the two ends of a path differ (the handler answers at once otherwise); a title's
canonical title is its own, and no two canaries lead to the same page (the list in
`seed_loader.py`); tiers differ in threshold, and the priority of a reported row (10)
lies before those of the tiers and of the first quarter (20).

| theorem | says |
|---|---|
| `EmbedderProofs!TypeCorrect` | `Spec => []TypeOK` |
| `EmbedderProofs!NothingLost` | `Spec => []NoSilentLoss`: a row without embedded_at is announced ahead of the committed offset, or a dead letter was sent for it, delivered or not, whatever the parser writes and whenever the process dies |
| `EmbedderProofs!BatchIsAccounted` | `Spec => []BatchAccounted` |
| `EmbedderProofs!EmbeddedTellsTheTruth` | `SettledSpec => []EmbeddedIsCurrent` |
| `EmbedderProofs!DrainedLeavesNoOrphan` | `SettledSpec => []DrainedHasNoOrphan` |
| `EmbedderProofs!ImplementsIndex` | `SettledSpec => IndexSpec`: the embedder implements `SearchIndex` |
| `EmbedderProofs!TaskKeepsPromise` | `ApartSpec => []EmbeddedIsCurrent` |
| `EmbedderProofs!TaskLeavesNoOrphan` | `ApartSpec => []DrainedHasNoOrphan` |
| `EmbedderProofs!FinishedTellsTheTruth` | `ApartSpec => FinishedIsIndexed`: when the task removes itself every row is indexed |
| `EmbedderProofs!TaskImplementsIndex` | `ApartSpec => IndexSpec`: the task, its embedder and its repair implement `SearchIndex` |
| `DocParserProofs!DocumentsStayWhole` | `Spec => DocumentIsWhole`: whatever changes a document leaves it with the chunks of one fetch of its page, all of them and no others, or with no row and no chunks |
| `DocParserProofs!CommittedPagesAreStored` | `Spec => []CommittedIsStored`: a committed page is stored whole, or a dead letter was sent for it |
| `DocParserProofs!ReadyFollowsRows` | `Spec => []ReadyMatchesRows` |
| `DocParserProofs!CanariesStayCurrent` | `Spec => []CanaryIsCurrent` |
| `DocParserProofs!ChunksAreWhole` | `ChunkSpec => []TextIsWhole`: the chunks of a section say all of it, in order, and nothing else |
| `DocParserProofs!ChunksRepeatTheOverlap`, `ChunksAreBounded` | `ChunkSpec => []RepeatIsOverlap`, `[]SizeBounded` |
| `CrawlerProofs!OnlyBreakerLoses` | `Spec => []BreakerLossBounded`: a batch for each time the breaker was met, and no other request |
| `CrawlerProofs!LastFoundIsPublished`, `BlobMatchesMessage`, `StoredLinksAreKnown` | `Spec => []PublishedIsFound`, `[]BlobIsPublished`, `[]LinksAreKnown`, for pages that no crash and no lost message left behind |
| `FrontierProofs!ReportedEditIsPursued` | `Spec => []ReportedIsPursued` |
| `FetchPolicyProofs!LimiterSpacesSlots` | `Spec => []SlotsSpaced` |
| `FetchPolicyProofs!BurstsAreBounded` | `Spec => []BurstBounded` |
| `FetchPolicyProofs!OpensOnOutages` | `Spec => OpensOnOutage`: the breaker opens on as many failures in a row within the window as the threshold asks for, and on no fewer |
| `FetchPolicyProofs!BreakerBacksOff` | `Spec => []BackedOff` |
| `RankingProofs!RowsAreComplete`, `DocumentsAreThemselves` | `RankSpec => []RowsComplete`, `[]DocsAreThemselves`: unless a document was deleted, row i has the links of document i as the scan found them |
| `RankingProofs!ReportedStayFirst` | `RankSpec => EditsStayFirst`: no statement of either script puts back a reported row |
| `RankingProofs!TiersDecide` | `RankSpec => []HighestTierWins`: the order of the tiers makes the highest one count |
| `RankingProofs!CentralPagesFirst` | `RankSpec => CentralComeFirst` |
| `ApiProofs!FewestHops` | `ApiSpec => []PathIsShortest`: the path returned is real and, unless a frontier was cut off, has the fewest hops |
| `ApiProofs!ThreeHopsReach` | `ApiSpec => []NearIsFound` |
| `ApiProofs!HitsDiffer`, `ScoreComesFirst`, `CentralComesFirst` | `ApiSpec => []NoHitTwice`, `[]ScoreDecides`, `[]CentralFirst` |
| `KnowledgeGraphProofs!RelationsAreSaid`, `ClassesAreThePages`, `PersonFactsAreShown` | `Spec => []RelationsFollowPages`, `[]TypesFollowPages`, `[]PersonFactsAreServed`, whatever categories were stored at first or replaced since |

**Embedder.** `NoSilentLoss` speaks of the committed offset, and is not
inductive: a commit moves the offset over the batch. `BatchAccounted` is what is
missing. It says the same of the *position* between a poll and its commit, with the
batch in memory as a third place where a row may be: among the dead letters, announced
past the position, or in `pending` with the content it has now. `NoLossInv` is the two of them
and the types. Each action of the embedder is one step of the proof; the one with work
in it is `FilterDone`, which drops from the batch what an earlier message embedded,
and for which one needs that dropping never touches a row without embedded_at whose
content is the message's. Of several messages about a chunk in one batch the last
counts (`LatestIsPending`).

`EmbeddedIsCurrent` does not follow from that, and does not hold in `Spec` (section 6).
With the parser waiting for chunks to settle, `SettledInv` adds `SettledBatch`:
every message that is not committed yet says what its row says, no deletion is pending
for an embedded row, and what is about to be marked has been upserted. From the same
invariant each step maps to a step of `SearchIndex` or a stutter, the promise being the
set of rows with embedded_at. `OrphanInv` is the other direction: a point without a row
has a message about it at or after the committed offset, and past the position or in
the deletions about to be made; what makes it inductive is, from `SettledBatch`, that
such a message is a tombstone.

The start-up task. `AutoInv` takes `SettledInv` and `OrphanInv` through its steps. A round starts the
embedder as a restart does; the one step that is not the embedder's is a resend, which
appends a message about a row without embedded_at, so the proof needs that what
`toSend` holds is still what the row says (`AutoInv`: nothing else writes rows while the
task runs). Then a count of zero (`NoneLeft`, for which chunks must be finitely many) and
`EmbeddedIsCurrent` give `FinishedIsIndexed`.

**Parser.** `ParserInv` is about where the loop is, about blobs (the blob of a page is
that of a message in the log, and of the last one that fetched it) and rows (only
canonical titles have chunks, and these are whole; what is being written is a fetch of
the page in hand, long enough to store).
`StoredInv` says `CommittedIsStored` of the records *passed* instead of the committed
ones, and lets the witness be any later record about the same document: a replay
stores older records again from a newer blob. `ReadyInv` says
what a consumer will have heard once the queue is delivered (`Told`); while a record is
in hand its messages are ahead of the rows, so it is compared with the rows to be
(`RowsToBe`). A crash between the two sets `torn`, and from there on nothing is
claimed. That a row without chunks is whole too follows from `ToWrite`, and not from its
chunks. `WatchInv` says which fetch decides a canary's alarm, and that a canary that
leads to another page is known as a redirect or was never well.

**Chunker.** The three properties are about finished chunks, the induction is about a
reader who goes through them. `Reads(f, t, a, b)` says that the text t brings somebody
who has the letters of f up to a as far as b: none is missing, and none comes before the
one it follows. `New` says that t has none of the old ones, `Repeats` that it has only
those the text before it ends with. Joined texts read on (`JoinReads`), white space reads
nothing, and the stripped end of a buffer reads nothing new (`SuffixFacts`, `NextReads`), so
filling buffers keeps a `Chain`: each begins where the last one ended (`PutChain`). Both
loops of `_split_long` are followed in this way, the units of the first being the
`Tiled` input of the second (`UnitsFacts`, `SplitFacts`). `ChunkInv` then places every
item of merged and pieces in its section (`Placed`); a section more appends a chain
(`AppendPlaced`), and a merge fuses two neighbours (`FusePlaced`): that the second begins
where the first ends is not in the guard of the merge, which compares section ids
alone, and follows because everything before a place was read by an earlier item. For the
length, `Bounded` follows a buffer to the one unit that exceeds the target. A `Pack` or a
`FlattenSeq` is a function defined by recursion over positions; that it exists, and what it
has at each position, is proved from the least position where it fails (`UpTo`,
`PackedExists`, `FlatSteps`), because the library's induction theorems are out of reach.

**Crawler.** `LossInv` counts the requests that are neither handled nor to come, up to
the committed offset and up to what the process has *passed*: only `DropBatch` adds to
them, at most a batch, and counts itself. `StoreInv` follows a page through the four
writes of handle_results. Between two of them the blob is ahead of the message,
the message ahead of the row, and the row ahead of the links (`Agree`); a page that a
crash caught there, or the last message about which was given up, is `behind`; it
agrees again from its next message on, because the blob was written before that. That a title seen by this
process has a row (`seen \subseteq known`) is what makes skipping it right.

**Frontier.** `ReportedIsPursued` is not inductive: a fetch that began before the edit
takes the row off the due ones when it is stored. `PursuitInv` adds that such a
stale fetch is followed by another request, in the outbox, in the log or in the
loop's hands, which holds because the loop sends a request of its own for every page
that mark_changed has reported.

**Fetch policy.** `LimiterInv` says that the next slot lies an interval after the last one granted.
`BreakerInv` counts: requests sent since the opening and tasks that have reserved a
slot are together fewer than the places of the semaphore, because a task that sees
the open breaker does not reserve, and one place is that of the failure that opened it.
`BurstInv` pairs requests with slots without knowing which task used which: as many
requests have left as slots were granted and are no longer held, at most `Concurrency`
are held, so the slot `Concurrency` places after a request was granted when that had
left (`SlotsFollow`). `OutageInv` says that the breaker's failures are the last of all
failures since the last success or opening (`failed`); the clock is monotonic, so what it
has dropped lies outside the window, and the recent ones are the same for both. That
gives both directions: it opens on no fewer, and on as many it does open.

**Ranking and the link graph.** `LinkInv` is about the array that three queries fill:
the ids listed are documents, distinct and in order (`ListInv`); the link rows still
to come are in that order and belong to places not reached yet (`ScanInv`); the
array so far is closed, and if no document was deleted its row i holds the links that
document i had when the scan began (`RowsInv`, in terms of `snapshot`, which no later
rewrite touches). `EditsStayFirst` is a property of steps, so what needs work is that each of them writes
numbers the formula can compare (`RowInv`): the place `RankRows` gives a row is a
quarter of the counted rows, which is a number because titles are finite
(`QuarterIsNumber`) and every document has a place in the order (`SeqsCover`).
`CentralComeFirst` needs that quarters keep the order of places (`QuarterKeepsOrder`),
and that scores are numbers and those of chrome pages are gone when rows are ranked
(`ScoreInv`). `HighestTierWins` is about the end of several statements with other
writers between them. `TierInv` says what the statements so far have left behind:
applied thresholds lie below those to come, and a row nobody else wrote still lies
behind `Edited`, so every tier moves it, and has the priority of the highest applied
tier its links reach.

**Knowledge graph.** `GraphInv` follows the three scripts. While nobody else writes,
what they hold is right: an update of refresh_categories is the page's categories, a row
it has passed is right or held (`RefreshInv`), and what extract_relations has passed
is in the table or held (`ExtractInv`). Once the categories follow the pages another
refresh changes nothing, so that extraction and refresh may come in either order, and
again with `--skip-infobox`. `NothingElse` is the converse: all that is in the table or
held is said, or its subject once said more under that source (`outdated`). `ClassInv`
is about the classes, computed from the categories, which follow the pages, and the infobox
predicates in the table. `PersonFactsAreServed` then is a matter of the rules of
entity_types.py: `SignalsDecide` says what they come to for a person.

**Path search.** `PathIsShortest` says nothing until a path is found, so nearly all of
the work is in what the two sides know before. `RealInv` says that the paths kept are
paths, over pages that are kept too, that the sides share no page, and that two of
them together are no longer than the hops so far: where the sides meet, the two halves
join to a simple path (`JoinedIsPath`) that `max_hops` allows. That it is a shortest one
is `LayerInv`: each side has a depth, D and E, up to which the neighbours of everything
nearer are kept (`Layered`). The code keeps no such number and reckons the depth
from the hop, which is right for neither side once one of them is grown twice running.
The proof finds what rescues it: a frontier at a depth the side has passed adds
nothing, and one at a depth not reached yet is empty, so that everything is expanded;
either way a hop leaves the side where it was or exactly one layer further (`HopStarts`,
`HopEnds`). So a page that is new lies beyond the depth of its side (`NewNeighbour`), and
a walk of fewer than D + E - 1 links would have a page that both sides know
(`NoShorterWalk`, by the least page of a walk that its side does not know). `Depths` is what the
hops have bought: at least 3 links after three hops, and no promise of more. It
has a case of its own for a source without neighbours, which is grown for ever.

**Search.** `SearchInv` says of the candidates that none comes twice and of the ranked
texts that they are candidates, sorted by score, and that what the cut left out scores
no more (`Reranked`); of the hits the same for the second sort (`Sorted`). The lemmas
are about sorting: an order of a finite set lists it (`InOrderExists`: the place of an element is
the number of those up to it), a stable sort by a weak order sorts and keeps every
element (`StableSorts`), and what a cut of a sorted sequence leaves out comes after all it
keeps (`BestAreKept`). `ScoreDecides` then needs that rounding is monotone: a hit with a
lower rounded score has the lower score, so the better candidate was within the margin and
was sorted before it.

**Only model-checked.** All liveness (`EventuallyIndexed`, `RawDrains`,
`RequestsDrain`, `EditsCaught`, `JobFinishes`): fairness and ENABLED are outside what
the prover does. The library's induction theorems take an operator as parameter, which
the installed provers cannot instantiate; the proofs use a first or a last element of a
set of numbers instead, which `WFMin` gives. RECURSIVE operators are not used, so that
every module may be proved about.

## 5. Simplifications

* A topic is an append-only log of one partition. Keys order the messages of one page
  or chunk, and offsets of partitions are independent. Compaction happens in `Replay`
  alone: elsewhere the consumers keep up with the log.
* Consumers start at the committed offset. The wait for the assignment, with the
  records buffered in it, is in `Embedder`; in the other consumers the first batch is
  an ordinary one.
* Qdrant's delete with `wait=False` takes effect before the next upsert of the same
  process.
* The parser's writes in `Embedder` change the row and append the message in one step;
  `DocParser` opens that step from the other side.
* `Chunker` starts from sentences: what the patterns take for the end of one, and the
  heading path written before each chunk (which is not counted by the limits), are left
  out, and the white space between two sentences is one character.
* Rows that the knowledge-graph scripts write 5,000 at a time are written in one step;
  the label list of relations.py is the part that other code tells apart; which facts the
  limit of facts_for cuts (a matter of PageRank and of the collation of predicates) is
  left open; `--limit`, `--dry-run` and `--drain` are left out.
* The links a search for a path goes along stay the same until it has answered, although
  each hop queries anew under autocommit (`api.py:430-449`): `GraphPath` says nothing of a
  search during which a page on the way is rewritten. `FindNeighbours` in `Search` is one
  step for the two queries of `neighbor_doc_ids` (`api.py:279-305`).
* The reranker gives any score to any text, Qdrant's fusion any order. In `Ranking` a
  document's score is one more than its links in the matrix; the power iteration is
  numeric.
* One page in `Frontier`: a row that waits for ever behind rows of a higher priority
  cannot be seen.

## 6. Where code and documents differ

Two differences are checked as violations:

* `SearchExpanded`: README.md:239 describes `category` as narrowing the search to a
  category, and an expanded search returns hits outside it, because the second query
  filters by document id alone (`services/api.py:148`).
* `Replay`: `services/embedder.py:7-8` and README.md:84 say that after a change of the
  embedding model chunks.ready is replayed from offset 0 and nothing else. But flush
  skips messages whose row has embedded_at and the same hash (`embedder.py:209-225`),
  which are all of them; and the topic is compacted by a key that all chunks of a
  document share (`config.py:126`, `parser.py:234-245`), so that one message of each
  document is left. Either alone leaves rows without points. Rows must have their
  embedded_at set to NULL, and `repair_unembedded.py` must publish them again.

The models led to these as well. Each shapes a guard or the wording of a property,
which says so in its comment:

* A row the parser rewrites between `FilterDone` and `Mark` gets embedded_at with the
  old vector, and stays that way if the message about the new content was consumed
  or is filtered as embedded, although the comment at `embedder.py:205-208` says that no
  update is ever skipped. Hence `SettledSpec`.
* Within a batch deletions come before upserts: a chunk that is written and then
  removed in one batch leaves an orphan point; and a batch redelivered in other portions
  may do so too, so that "every stage is idempotent" (`kafka_io.py:116-117`) needs its
  portions. Hence the settled chunks of `DrainedHasNoOrphan`. Tombstones of a failed
  batch are kept in memory only.
* After a crash between the transaction of the parser and its messages, the page is
  redelivered, has the stored hash, and counts as unchanged: the chunks are not
  announced. `Drained` in `DocParser` and `AtRest` in `Crawler` exclude what a crash cut
  off; the repair scripts are what brings such rows back. The same shortcut meets a
  replay of docs.raw after a change of the chunker, which the design
  (`docs/superpowers/specs/2026-08-28-namuwiki-rag-design.md:621`) names as the way to
  cut everything anew.
* The canary of a page whose extraction fails altogether raises no alarm, its baseline
  may be the length of a page too short to store (`CanaryIsCurrent`), and an alarm is
  written to the table and the log: nothing stops the parser, as design:625 says.
* The dead letters of a failed batch are queued, `flush` may return with some of them left
  and its result is dropped (`kafka_io.py:95-96`), and the offset is committed
  (`embedder.py:330-335`); no delivery callback is installed. So a row may be neither
  embedded, nor announced, nor in embed.dlq, although the producer is set up so that
  nothing gets lost (`kafka_io.py:77`). The same
  holds for parse.dlq (`parser.py:141,148,280`) and for docs.raw, where the page stays
  behind downstream: its last_hash is stored before (`crawler.py:191-192`), so that it
  counts as unchanged until it does change. The properties say where such a loss can be
  (`dropped`, `dlqLost`, `torn`, `behind`) and that there is no other.
* The length check of the parser counts headings (`parser.py:145-147`,
  `extract.py:126-134`), the chunker skips sections without a body (`chunker.py:88`). A
  page of headings is stored as a row without chunks, which the smoke test takes for a
  fault (`smoke_test.py:127`), and since a row without chunks is never "unchanged" it is
  parsed again each time it is published. `DocumentIsWhole` asks for the chunks its page
  is cut into.
* A page that becomes a redirect leaves its old document and chunks in place, until
  fold_redirects is run.
* The crawler drops the polled batch while the breaker is open, and the next commit
  passes it (`BreakerLossBounded`).
* A 404 leaves last_hash: a page that returns with the same content is "unchanged" and
  stays deleted (the exception in `PublishedIsFound`).
* A page with five failures is never due again, though `frontier.py:9` says that
  everything is revisited; only the sidebar brings it back (`EditsCaught`). And
  queued_at bounds, but does not exclude, double requests (`frontier.py:64`). Nothing
  ever raises a priority of 10 again, so that pages that were reported once are
  fetched before all others for good.
* Requests that passed the check before the breaker opened still leave (`BackedOff`). Ten
  429s or 5xxs in a minute are said to stop the crawler (README.md:464), but any success
  clears the count (`crawl.py:93-94`), so that only failures in a row do
  (`OpensOnOutage`).
* A piece that chunk_document merges keeps the overlap it begins with, so that a chunk
  may repeat a part of itself (`RepeatIsOverlap`), and a sentence longer than the
  target is never cut (`SizeBounded`).
* The docstring of `graph_path` (`services/api.py:418`) promises the shortest path. But a
  calendar page asked for as an end is taken out of the lists of neighbours like any
  other (`api.py:447`), so that a link to it is seen from its own side only: a path with
  a detour may be met first (with such a target and `MaxHops = 5` TLC returns
  source, b, target where source and target are linked), a page whose only link leads to it
  is reported as not linked, because its side is never the larger and is grown in every
  hop, and so are two calendar pages. `PathIsShortest` and `NearIsFound` therefore speak of
  links that can be found (`Findable`).
* `graph_path` takes the depth it expects from the hop count, not from the side it
  grows, and gives up on some pairs max_hops apart; three hops are always
  found (`NearIsFound`).
* A document deleted between the queries of `build_graph` shifts every later row by one,
  and links stored after the scan began are left to the next run (`RowsComplete`); a redirect can bring a chrome title back in (`DocsAreThemselves`),
  and its score is public between two statements (`CentralComeFirst`).
* "Mutual" neighbours in the expansion (`api.py:277-299`) link to *some* seed, not to
  the seed that links to them.
* Relations are never deleted, so a stale one counts for ever: those of an earlier version
  of the page, of a category that `refresh_categories` has replaced, and of a page
  whose document was deleted after the query of the rows (`extract_relations.py:112`).
  `RelationsFollowPages` allows for these (`outdated`) and for no others.
  `refresh_categories` can overwrite categories newer than its own (the knowledge-graph
  properties ask that nobody wrote meanwhile).
* The types are there to filter the rows of a stray infobox out (`api.py:259-262`), but such
  a row mostly makes the page a person: only one of "family" (가족), which is no signal of a
  class, or one beside a row of a place, is told from a row of the page's own. And an
  infobox is shown whole only if the search shows fewer than 24 facts (`api.py:245`), of up
  to 60 a page may have (`PersonFactsAreServed`).
* `repair_unembedded` beside a running parser can republish older content after newer,
  and `repair_chunkless` beside one can store the hash it read before over a newer page.

## 7. What is not modelled, and the plan

Not modelled because there is nothing to check in it: smoke and search tests,
benchmarks, web pages, the single queries of the API. Out of TLC's reach: the
arithmetic of PageRank, of the Leiden partition, of the models. Pure text work whose
result the models take as given: the extractor and the normalisation of titles.

Not covered by a property: an embedder that waits for ever for another program to free
the GPU, and the starvation of rows of a low priority, which is a matter of rates. Of
fold_redirects and repair_chunkless only what others suffer from them is modelled;
their races with a running parser are described in section 6.

The order of the modules follows the data, from the place where a silent loss costs
most (the index) outwards. All that were planned are written, but for two:

1. `Pipeline`, `DocParser` composed with `Embedder` over one chunks.ready. Each of the
   two models what the other can do to it, and the composition at useful bounds is
   beyond an exhaustive run of a few minutes.
2. `Folding`, fold_redirects and repair_chunkless as programs of their own.

The theorems about the start-up task stand in `EmbedderProofs`, whose invariants they
extend, those about both endpoints in `ApiProofs`, and those about the chunker in
`DocParserProofs`, since the parser is what calls it.
