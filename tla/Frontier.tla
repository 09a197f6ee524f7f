------------------------------- MODULE Frontier -------------------------------
(***************************************************************************)
(* services/frontier.py: which page is crawled when.  Its loop polls the   *)
(* sidebar for fresh edits and refills crawl.requests with the rows of     *)
(* crawl_state that are due; the crawler writes the same rows back.  Both  *)
(* run on autocommit, so their statements interleave freely.               *)
(*                                                                         *)
(* The crawler is here what it does to crawl_state: it takes a request,    *)
(* fetches the page as it is then, and stores the outcome later.           *)
(* (Crawler.tla opens that step.)  Timestamps are what the queries make of *)
(* them: next_due_at has passed or not, queued_at is NULL, within the hour *)
(* or older.                                                               *)
(***************************************************************************)
EXTENDS Integers, FiniteSets

CONSTANTS Title,          \* page titles; doc_id maps them one to one to ids
          FailLimit,      \* due_rows takes rows with fail_count below it (5)
          InflightLimit,  \* INFLIGHT_LIMIT
          MaxBacklog,     \* bound: requests for one page told apart
          MaxEdits, MaxFaults, MaxErrors, MaxDrops, MaxCrashes   \* bounds: edits, failed
                          \* fetches, exceptions of the frontier, lost requests, crashes

ASSUME FrontierAssumption ==
  /\ IsFiniteSet(Title)
  /\ FailLimit \in Nat /\ InflightLimit \in Nat /\ MaxBacklog \in Nat \ {0}
  /\ MaxEdits \in Nat /\ MaxFaults \in Nat /\ MaxErrors \in Nat
  /\ MaxDrops \in Nat /\ MaxCrashes \in Nat

VARIABLES
  edited,     \* pages changed since the last fetch that was stored
  sidebar,    \* what /sidebar.json lists
  known,      \* pages with a row in crawl_state
  due,        \* rows whose next_due_at has passed
  queuedAt,   \* queued_at of each row: "null", "recent" or "old"
  refetched,  \* rows with last_fetched >= queued_at
  failCount,  \* fail_count of each row
  outbox,     \* requests in the local queue of the frontier's producer
  backlog,    \* requests for each page in crawl.requests
  fetching,   \* the request the crawler is at; fresh until the page changes
  batch,      \* the rows the frontier is enqueueing
  reason,     \* the reason it gives for them
  pc,         \* where its loop is
  reported,   \* history: pages whose last edit mark_changed was told of, not
              \* fetched since
  spent       \* how many of each kind of event, of those Budget bounds

row  == <<known, due, queuedAt, refetched, failCount>>
loop == <<batch, reason, pc>>
vars == <<edited, sidebar, known, due, queuedAt, refetched, failCount, outbox,
          backlog, fetching, batch, reason, pc, reported, spent>>

Budget == [edits |-> MaxEdits, faults |-> MaxFaults, errors |-> MaxErrors,
           drops |-> MaxDrops, crashes |-> MaxCrashes]
Spend(what) == /\ spent[what] < Budget[what]
               /\ spent' = [spent EXCEPT ![what] = @ + 1]

Init ==
  /\ known \in SUBSET Title /\ edited = known   \* seeded, never fetched
  /\ due = known
  /\ sidebar = {}
  /\ queuedAt = [t \in Title |-> "null"]
  /\ refetched = {}
  /\ failCount = [t \in Title |-> 0]
  /\ outbox = {} /\ backlog = [t \in Title |-> 0] /\ fetching = {}
  /\ batch = {} /\ reason = "due" /\ pc = "sidebar"
  /\ reported = {}
  /\ spent = [what \in DOMAIN Budget |-> 0]

-------------------------------------------------------------------------------
(* The wiki, and the time that passes.                                     *)

\* A page is edited: it enters the sidebar, and a fetch under way misses it.
Edit(t) ==
  /\ Spend("edits")
  /\ edited' = edited \cup {t}
  /\ sidebar' = sidebar \cup {t}
  /\ fetching' = {[f EXCEPT !.fresh = @ /\ f.title # t] : f \in fetching}
  /\ reported' = reported \ {t}
  /\ UNCHANGED <<row, outbox, backlog, loop>>

\* The sidebar covers half a minute of edits.
SlideOut(t) ==
  /\ t \in sidebar
  /\ sidebar' = sidebar \ {t}
  /\ UNCHANGED <<edited, row, outbox, backlog, fetching, loop, reported, spent>>

\* Time passes, or fold_redirects puts the row of a canonical title back.
FallsDue(t) ==
  /\ t \in known \ due
  /\ due' = due \cup {t}
  /\ UNCHANGED <<edited, sidebar, known, queuedAt, refetched, failCount, outbox,
                 backlog, fetching, loop, reported, spent>>

HourPasses(t) ==
  /\ queuedAt[t] = "recent"
  /\ queuedAt' = [queuedAt EXCEPT ![t] = "old"]
  /\ UNCHANGED <<edited, sidebar, known, due, refetched, failCount, outbox, backlog,
                 fetching, loop, reported, spent>>

\* A row is added by the crawler's link harvest, seed_loader or fold_redirects.
Discover(t) ==
  /\ t \notin known
  /\ known' = known \cup {t} /\ due' = due \cup {t} /\ edited' = edited \cup {t}
  /\ UNCHANGED <<sidebar, queuedAt, refetched, failCount, outbox, backlog, fetching,
                 loop, reported, spent>>

-------------------------------------------------------------------------------
(* The frontier.                                                           *)

ReadSidebar ==
  /\ pc = "sidebar"
  /\ batch' = sidebar /\ reason' = "sidebar"
  /\ pc' = "mark"
  /\ UNCHANGED <<edited, sidebar, row, outbox, backlog, fetching, reported, spent>>

\* An exception on the sidebar's path is logged, and the loop goes on.
SidebarFails ==
  /\ \/ pc = "sidebar"
     \/ reason = "sidebar" /\ pc \in {"mark", "send", "stamp"}
  /\ Spend("errors")
  /\ batch' = {} /\ pc' = "refill"
  /\ UNCHANGED <<edited, sidebar, row, outbox, backlog, fetching, reason, reported>>

\* "Created if there is none": the statement is an upsert.
Upserted == known \cup batch

MarkChanged ==
  /\ pc = "mark"
  /\ known' = Upserted
  /\ due' = due \cup batch
  /\ failCount' = [t \in Title |-> IF t \in batch THEN 0 ELSE failCount[t]]
  /\ reported' = reported \cup (batch \cap edited)
  /\ pc' = "send"
  /\ UNCHANGED <<edited, sidebar, queuedAt, refetched, outbox, backlog, fetching, batch,
                 reason, spent>>

\* enqueue: the messages are queued, the rows stamped, the producer flushed.
MutantToSend == {t \in batch : queuedAt[t] # "recent"}
ToSend == batch

Send ==
  /\ pc = "send"
  /\ outbox' = outbox \cup ToSend
  /\ pc' = "stamp"
  /\ UNCHANGED <<edited, sidebar, row, backlog, fetching, batch, reason, reported, spent>>

Stamp ==
  /\ pc = "stamp"
  /\ queuedAt' = [t \in Title |-> IF t \in batch THEN "recent" ELSE queuedAt[t]]
  /\ refetched' = refetched \ batch
  /\ pc' = "flush"
  /\ UNCHANGED <<edited, sidebar, known, due, failCount, outbox, backlog, fetching,
                 batch, reason, reported, spent>>

AfterEnqueue ==
  /\ batch' = {} /\ pc' = IF reason = "sidebar" THEN "refill" ELSE "sidebar"

Flush ==
  /\ pc = "flush"
  /\ outbox = {}
  /\ AfterEnqueue
  /\ UNCHANGED <<edited, sidebar, row, outbox, backlog, fetching, reason, reported, spent>>

FlushTimesOut ==
  /\ pc = "flush"
  /\ outbox # {} /\ Spend("errors")
  /\ AfterEnqueue
  /\ UNCHANGED <<edited, sidebar, row, outbox, backlog, fetching, reason, reported>>

MutantDueRows == {t \in known : /\ failCount[t] < FailLimit
                                /\ t \in due /\ queuedAt[t] = "null"}
DueRows == {t \in known : /\ failCount[t] < FailLimit
                          /\ t \in due /\ queuedAt[t] # "recent"}
Inflight == {t \in known : queuedAt[t] = "recent" /\ t \notin refetched}
Room == InflightLimit - Cardinality(Inflight)

\* As many due rows as there is room for; which ones, priority decides.
Refill ==
  /\ pc = "refill" /\ Room > 0
  /\ \E S \in SUBSET DueRows :
       /\ Cardinality(S) =< Room
       /\ S = DueRows \/ Cardinality(S) = Room
       /\ batch' = S
  /\ reason' = "due" /\ pc' = "send"
  /\ UNCHANGED <<edited, sidebar, row, outbox, backlog, fetching, reported, spent>>

\* Less than a minute since the last refill, or no room.
NoRefill ==
  /\ pc = "refill"
  /\ pc' = "sidebar"
  /\ UNCHANGED <<edited, sidebar, row, outbox, backlog, fetching, batch, reason,
                 reported, spent>>

\* Ctrl-C, an exception while refilling, or a crash; then started again.
FrontierCrash ==
  /\ Spend("crashes")
  /\ outbox' = {} /\ batch' = {} /\ pc' = "sidebar"
  /\ UNCHANGED <<edited, sidebar, row, backlog, fetching, reason, reported>>

-------------------------------------------------------------------------------
(* crawl.requests.  The backlog of a page is counted up to MaxBacklog.     *)

OneMore(n) == IF n < MaxBacklog THEN n + 1 ELSE n

Deliver(t) ==
  /\ t \in outbox
  /\ outbox' = outbox \ {t}
  /\ backlog' = [backlog EXCEPT ![t] = OneMore(@)]
  /\ UNCHANGED <<edited, sidebar, row, fetching, loop, reported, spent>>

\* A request is lost: its batch met the open breaker, or retries ran out.
LoseRequest(t) ==
  /\ Spend("drops")
  /\ \/ t \in outbox /\ outbox' = outbox \ {t} /\ UNCHANGED backlog
     \/ /\ backlog[t] > 0 /\ fetching = {}
        /\ backlog' = [backlog EXCEPT ![t] = @ - 1] /\ UNCHANGED outbox
  /\ UNCHANGED <<edited, sidebar, row, fetching, loop, reported>>

-------------------------------------------------------------------------------
(* The crawler.                                                            *)

Take(t) ==
  /\ fetching = {} /\ backlog[t] > 0
  /\ fetching' = {[title |-> t, fresh |-> TRUE]}
  /\ backlog' = [backlog EXCEPT ![t] = @ - 1]
  /\ UNCHANGED <<edited, sidebar, row, outbox, loop, reported, spent>>

\* What handle_results writes to the row in every case.
Unqueued(t) == queuedAt' = [queuedAt EXCEPT ![t] = "null"] /\ due' = due \ {t}

StoreFetched(f) ==
  /\ f \in fetching /\ fetching' = {}
  /\ Unqueued(f.title)
  /\ refetched' = refetched \cup {f.title}
  /\ failCount' \in {failCount,                             \* 404
                     [failCount EXCEPT ![f.title] = 0]}     \* 200
  /\ edited' = IF f.fresh THEN edited \ {f.title} ELSE edited
  /\ reported' = IF f.fresh THEN reported \ {f.title} ELSE reported
  /\ UNCHANGED <<sidebar, known, outbox, backlog, loop, spent>>

StoreFailure(f) ==
  /\ f \in fetching /\ fetching' = {}
  /\ Spend("faults")
  /\ Unqueued(f.title)
  /\ failCount' = [failCount EXCEPT ![f.title] = @ + 1]
  /\ UNCHANGED <<edited, sidebar, known, refetched, outbox, backlog, loop, reported>>

\* The request was not committed and comes again.
CrawlerCrash(f) ==
  /\ f \in fetching /\ fetching' = {}
  /\ Spend("crashes")
  /\ backlog' = [backlog EXCEPT ![f.title] = OneMore(@)]
  /\ UNCHANGED <<edited, sidebar, row, outbox, loop, reported>>

-------------------------------------------------------------------------------
(* The specifications.                                                     *)

Loop == \/ ReadSidebar \/ MarkChanged \/ Send \/ Stamp \/ Flush \/ NoRefill
Frontier == Loop \/ Refill \/ SidebarFails \/ FlushTimesOut \/ FrontierCrash

World(t) == Edit(t) \/ SlideOut(t) \/ FallsDue(t) \/ HourPasses(t) \/ Discover(t)
Queue(t) == Deliver(t) \/ LoseRequest(t)
Store(f) == StoreFetched(f) \/ StoreFailure(f)

Next == \/ Frontier
        \/ \E t \in Title : World(t) \/ Queue(t) \/ Take(t)
        \/ \E f \in fetching : Store(f) \/ CrawlerCrash(f)

Spec == Init /\ [][Next]_vars

\* Time passes and what the sidebar lists slides out of it; the loop turns and
\* refills once a minute; the crawler reads each partition in order.
Fairness ==
  /\ WF_vars(Loop) /\ SF_vars(Refill)
  /\ WF_vars(\E f \in fetching : Store(f))
  /\ \A t \in Title : /\ WF_vars(SlideOut(t)) /\ WF_vars(FallsDue(t))
                      /\ WF_vars(HourPasses(t)) /\ WF_vars(Deliver(t))
                      /\ SF_vars(Take(t))

FairSpec == Spec /\ Fairness

-------------------------------------------------------------------------------
(* Properties.                                                             *)

\* mark_changed, "expires at once what the sidebar reports": until it is
\* fetched, a reported edit is due, requested, being fetched as it is now, or
\* waiting for the retry of a failed fetch.  What a fetch that began before the
\* edit writes over next_due_at does not lose it, because the request is sent
\* although one is under way.  (An exception, a crash or a lost request takes
\* that second request away; then EditsCaught is what is left.)
Undisturbed == spent.errors = 0 /\ spent.drops = 0 /\ spent.crashes = 0
ReportedIsPursued ==
  Undisturbed =>
    \A t \in reported :
      \/ t \in due \/ t \in outbox \/ backlog[t] > 0 \/ failCount[t] > 0
      \/ [title |-> t, fresh |-> TRUE] \in fetching
      \/ t \in batch /\ pc = "send"

\* "The revisit catches in the end the edits the sidebar missed": once the wiki
\* is quiet, every page in crawl_state has been fetched since its last edit,
\* through lost requests, crashes and exceptions; unless its fetches failed
\* FailLimit times (due_rows leaves such a row out for good).
EditsCaught == <>[](\A t \in edited \cap known : failCount[t] >= FailLimit)
===============================================================================
