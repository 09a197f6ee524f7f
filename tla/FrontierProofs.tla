---------------------------- MODULE FrontierProofs ----------------------------
(***************************************************************************)
(* Proofs about Frontier.tla, for every set of titles and every bound: an  *)
(* edit the sidebar reported is not forgotten while the page waits for it  *)
(* to be fetched, although the crawler writes to the same row.             *)
(***************************************************************************)
EXTENDS Frontier, TLAPS

-------------------------------------------------------------------------------
(* Types; the crawler is at one request at a time.                         *)

Fetches == [title : Title, fresh : BOOLEAN]

TypeInv ==
  /\ sidebar \subseteq Title /\ batch \subseteq Title /\ outbox \subseteq Title
  /\ reported \subseteq Title /\ known \subseteq Title
  /\ failCount \in [Title -> Nat] /\ backlog \in [Title -> Nat]
  /\ fetching \subseteq Fetches
  /\ \A f, g \in fetching : f = g
  /\ spent \in [DOMAIN Budget -> Nat]

LEMMA Counting ==
  /\ \A n \in Nat : n + 1 \in Nat /\ n + 1 > 0
  /\ \A n \in Nat : n > 0 => n - 1 \in Nat
  /\ \A n \in Nat : OneMore(n) \in Nat /\ OneMore(n) > 0
BY FrontierAssumption DEF OneMore

LEMMA SpendType ==
  ASSUME spent \in [DOMAIN Budget -> Nat], NEW what \in DOMAIN Budget, Spend(what)
  PROVE  /\ spent' \in [DOMAIN Budget -> Nat]
         /\ spent' = [spent EXCEPT ![what] = spent[what] + 1]
         /\ spent'[what] # 0
BY DEF Spend

LEMMA BudgetFields ==
  {"edits", "faults", "errors", "drops", "crashes"} = DOMAIN Budget
BY DEF Budget

-------------------------------------------------------------------------------
(* Reported edits.                                                         *)

\* A request for t is queued, in the log, or about to be queued.
Following(t) == t \in outbox \/ backlog[t] > 0 \/ (t \in batch /\ pc = "send")

Pursued(t) ==
  \/ t \in due \/ failCount[t] > 0 \/ Following(t)
  \/ [title |-> t, fresh |-> TRUE] \in fetching

\* The fetch that began before the edit will take the row off the due ones: the
\* request that follows it is what keeps the edit.
StaleIsFollowed(t) == [title |-> t, fresh |-> FALSE] \in fetching => Following(t)

PursuitInv == Undisturbed => \A t \in reported : Pursued(t) /\ StaleIsFollowed(t)

\* The steps of the frontier's loop that nothing disturbs.
LEMMA LoopStep ==
  ASSUME TypeInv, PursuitInv,
         ReadSidebar \/ MarkChanged \/ Send \/ Stamp \/ Flush \/ NoRefill \/ Refill
  PROVE  TypeInv' /\ PursuitInv'
<1>1. UNCHANGED <<backlog, fetching, spent>>
  BY DEF ReadSidebar, MarkChanged, Send, Stamp, Flush, NoRefill, Refill, row
<1>2. CASE ReadSidebar \/ NoRefill \/ Refill \/ Stamp
  <2>1. /\ UNCHANGED <<sidebar, known, due, failCount, outbox, reported>> /\ pc # "send"
        /\ batch' \subseteq Title
    BY <1>2 DEF ReadSidebar, NoRefill, Refill, Stamp, row, TypeInv, DueRows
  <2> QED
    BY <1>1, <2>1 DEF TypeInv, PursuitInv, Undisturbed, Pursued, StaleIsFollowed, Following
<1>3. CASE MarkChanged
  <2>1. /\ UNCHANGED <<sidebar, outbox, batch>>
        /\ due' = due \cup batch /\ pc' = "send" /\ pc = "mark"
        /\ reported' = reported \cup (batch \cap edited)
        /\ failCount' = [t \in Title |-> IF t \in batch THEN 0 ELSE failCount[t]]
    BY <1>3 DEF MarkChanged
  <2>2. TypeInv'
    BY <1>1, <1>3, <2>1 DEF MarkChanged, Upserted, TypeInv
  <2>3. ASSUME Undisturbed', NEW t \in reported' PROVE Pursued(t)' /\ StaleIsFollowed(t)'
    <3>1. CASE t \in batch
      BY <2>1, <3>1 DEF Pursued, StaleIsFollowed, Following
    <3>2. CASE t \notin batch
      <4>1. t \in reported /\ t \in Title /\ failCount'[t] = failCount[t]
        BY <2>1, <3>2 DEF TypeInv
      <4>2. Undisturbed
        BY <1>1, <2>3 DEF Undisturbed
      <4> QED
        BY <1>1, <2>1, <4>1, <4>2 DEF PursuitInv, Pursued, StaleIsFollowed, Following
    <3> QED
      BY <3>1, <3>2
  <2> QED
    BY <2>2, <2>3 DEF PursuitInv
<1>4. CASE Send
  BY <1>1, <1>4 DEF Send, ToSend, row, TypeInv, PursuitInv, Undisturbed, Pursued,
                    StaleIsFollowed, Following
<1>5. CASE Flush
  BY <1>1, <1>5 DEF Flush, AfterEnqueue, row, TypeInv, PursuitInv, Undisturbed, Pursued,
                    StaleIsFollowed, Following
<1> QED
  BY <1>2, <1>3, <1>4, <1>5

\* An exception, a crash or a lost request ends what is promised.
LEMMA DisturbedStep ==
  ASSUME TypeInv, PursuitInv,
         \/ SidebarFails \/ FlushTimesOut \/ FrontierCrash
         \/ \E t \in Title : LoseRequest(t)
         \/ \E f \in fetching : CrawlerCrash(f)
  PROVE  TypeInv' /\ PursuitInv'
<1>1. \E what \in {"errors", "drops", "crashes"} : Spend(what)
  BY DEF SidebarFails, FlushTimesOut, FrontierCrash, LoseRequest, CrawlerCrash
<1>2. spent' \in [DOMAIN Budget -> Nat] /\ ~Undisturbed'
  BY <1>1, SpendType, BudgetFields DEF TypeInv, Undisturbed
<1>3. /\ UNCHANGED <<sidebar, known, failCount, reported>>
      /\ batch' \subseteq Title /\ outbox' \subseteq Title
      /\ fetching' \subseteq fetching
  BY DEF SidebarFails, FlushTimesOut, AfterEnqueue, FrontierCrash, LoseRequest, CrawlerCrash,
         row, loop, TypeInv
<1>4. backlog' \in [Title -> Nat]
  <2>1. CASE UNCHANGED backlog
    BY <2>1 DEF TypeInv
  <2>2. ASSUME NEW t \in Title, LoseRequest(t) PROVE backlog' \in [Title -> Nat]
    BY <2>2, Counting DEF LoseRequest, TypeInv
  <2>3. ASSUME NEW f \in fetching, CrawlerCrash(f) PROVE backlog' \in [Title -> Nat]
    <3>1. f.title \in Title /\ backlog' = [backlog EXCEPT ![f.title] = OneMore(backlog[f.title])]
      BY <2>3 DEF CrawlerCrash, TypeInv, Fetches
    <3> QED
      BY <3>1, Counting DEF TypeInv
  <2> QED
    BY <2>1, <2>2, <2>3 DEF SidebarFails, FlushTimesOut, FrontierCrash
<1> QED
  BY <1>2, <1>3, <1>4 DEF TypeInv, PursuitInv

\* The wiki, the time that passes, and the producer.
LEMMA WorldStep ==
  ASSUME TypeInv, PursuitInv, NEW t \in Title,
         World(t) \/ Deliver(t)
  PROVE  TypeInv' /\ PursuitInv'
<1>1. CASE Edit(t)
  <2>1. /\ UNCHANGED <<known, due, failCount, outbox, backlog, batch, pc>>
        /\ sidebar' = sidebar \cup {t} /\ reported' = reported \ {t}
        /\ fetching' = {[f EXCEPT !.fresh = f.fresh /\ f.title # t] : f \in fetching}
    BY <1>1 DEF Edit, row, loop
  <2>2. Spend("edits") /\ spent \in [DOMAIN Budget -> Nat] /\ "edits" \in DOMAIN Budget
    BY <1>1, BudgetFields DEF Edit, TypeInv
  <2>3. spent' \in [DOMAIN Budget -> Nat] /\ (Undisturbed' => Undisturbed)
    BY <2>2, SpendType, BudgetFields DEF Undisturbed
  <2>4. /\ fetching' \subseteq Fetches /\ \A f, g \in fetching' : f = g
    <3>1. \A f \in fetching : f.fresh \in BOOLEAN /\ [f EXCEPT !.fresh = f.fresh /\ f.title # t] \in Fetches
      BY DEF TypeInv, Fetches
    <3>2. fetching' \subseteq Fetches
      BY <2>1, <3>1
    <3>3. \A f, g \in fetching : f = g
      BY DEF TypeInv
    <3>4. \A f, g \in fetching' : f = g
      BY <2>1, <3>3
    <3> QED BY <3>2, <3>4
  <2>5. ASSUME NEW u \in reported', NEW b \in BOOLEAN
        PROVE  [title |-> u, fresh |-> b] \in fetching' <=> [title |-> u, fresh |-> b] \in fetching
    <3>1. u # t /\ \A f \in fetching : f \in Fetches
      BY <2>1 DEF TypeInv
    <3>2. \A f \in fetching :
            [f EXCEPT !.fresh = f.fresh /\ f.title # t]
              = [title |-> f.title, fresh |-> (f.fresh /\ f.title # t)]
      BY <3>1 DEF Fetches
    <3>3. \A f \in fetching : f = [title |-> f.title, fresh |-> f.fresh] /\ f.fresh \in BOOLEAN
      BY <3>1 DEF Fetches
    <3>4. ASSUME [title |-> u, fresh |-> b] \in fetching'
          PROVE  [title |-> u, fresh |-> b] \in fetching
      <4>1. PICK f \in fetching :
              [title |-> u, fresh |-> b] = [title |-> f.title, fresh |-> (f.fresh /\ f.title # t)]
        BY <2>1, <3>2, <3>4
      <4>2. f.title = u /\ (f.fresh /\ f.title # t) = b
        BY <4>1
      <4>3. f.fresh = b
        BY <3>1, <3>3, <4>2
      <4> QED
        BY <3>3, <4>2, <4>3
    <3>5. ASSUME [title |-> u, fresh |-> b] \in fetching
          PROVE  [title |-> u, fresh |-> b] \in fetching'
      <4> DEFINE f == [title |-> u, fresh |-> b]
      <4>1. [title |-> f.title, fresh |-> (f.fresh /\ f.title # t)] \in fetching'
        BY <2>1, <3>2, <3>5
      <4>2. (f.fresh /\ f.title # t) = b
        BY <3>1
      <4> QED
        BY <4>1, <4>2
    <3> QED
      BY <3>4, <3>5
  <2>6. TypeInv'
    BY <2>1, <2>3, <2>4 DEF TypeInv
  <2> QED
    BY <2>1, <2>3, <2>5, <2>6 DEF PursuitInv, Pursued, StaleIsFollowed, Following
<1>2. CASE SlideOut(t) \/ FallsDue(t) \/ HourPasses(t) \/ Discover(t)
  <2>1. /\ UNCHANGED <<failCount, outbox, backlog, fetching, batch, pc, reported, spent>>
        /\ sidebar' \subseteq sidebar /\ due \subseteq due' /\ known' \subseteq known \cup {t}
    BY <1>2 DEF SlideOut, FallsDue, HourPasses, Discover, row, loop
  <2> QED
    BY <2>1 DEF TypeInv, PursuitInv, Undisturbed, Pursued, StaleIsFollowed, Following
<1>3. CASE Deliver(t)
  <2>1. /\ UNCHANGED <<sidebar, known, due, failCount, fetching, batch, pc, reported, spent>>
        /\ outbox' = outbox \ {t}
        /\ backlog' = [backlog EXCEPT ![t] = OneMore(backlog[t])]
    BY <1>3 DEF Deliver, row, loop
  <2>2. /\ backlog' \in [Title -> Nat] /\ backlog'[t] > 0
        /\ \A u \in Title \ {t} : backlog'[u] = backlog[u]
    BY <2>1, Counting DEF TypeInv
  <2>3. \A u \in Title : Following(u) => Following(u)'
    BY <2>1, <2>2 DEF Following
  <2> QED
    BY <2>1, <2>2, <2>3 DEF TypeInv, PursuitInv, Undisturbed, Pursued, StaleIsFollowed
<1> QED
  BY <1>1, <1>2, <1>3 DEF World

\* The crawler takes a request and stores the outcome.
LEMMA CrawlStep ==
  ASSUME TypeInv, PursuitInv,
         (\E t \in Title : Take(t)) \/ \E f \in fetching : Store(f)
  PROVE  TypeInv' /\ PursuitInv'
<1>1. ASSUME NEW t \in Title, Take(t) PROVE TypeInv' /\ PursuitInv'
  <2>1. /\ UNCHANGED <<sidebar, known, due, failCount, outbox, batch, pc, reported, spent>>
        /\ fetching = {} /\ fetching' = {[title |-> t, fresh |-> TRUE]}
        /\ backlog[t] > 0 /\ backlog' = [backlog EXCEPT ![t] = backlog[t] - 1]
    BY <1>1 DEF Take, row, loop
  <2>2. backlog' \in [Title -> Nat] /\ \A u \in Title \ {t} : backlog'[u] = backlog[u]
    BY <2>1, Counting DEF TypeInv
  <2>3. TypeInv'
    BY <2>1, <2>2 DEF TypeInv, Fetches
  <2>4. ASSUME Undisturbed', NEW u \in reported' PROVE Pursued(u)' /\ StaleIsFollowed(u)'
    <3>1. Undisturbed /\ u \in reported /\ u \in Title
      BY <2>1, <2>4 DEF Undisturbed, TypeInv
    <3>2. StaleIsFollowed(u)'
      BY <2>1 DEF StaleIsFollowed
    <3>3. CASE u = t
      BY <2>1, <3>2, <3>3 DEF Pursued
    <3>4. CASE u # t
      BY <2>1, <2>2, <3>1, <3>2, <3>4 DEF PursuitInv, Pursued, Following
    <3> QED
      BY <3>3, <3>4
  <2> QED
    BY <2>3, <2>4 DEF PursuitInv
<1>2. ASSUME NEW f \in fetching, Store(f) PROVE TypeInv' /\ PursuitInv'
  <2>1. /\ f.title \in Title /\ f.fresh \in BOOLEAN
        /\ f = [title |-> f.title, fresh |-> f.fresh]
        /\ fetching = {f} /\ fetching' = {}
    BY <1>2 DEF Store, StoreFetched, StoreFailure, TypeInv, Fetches
  <2>2. /\ UNCHANGED <<sidebar, known, outbox, backlog, batch, pc>>
        /\ due' = due \ {f.title} /\ reported' \subseteq reported
    BY <1>2 DEF Store, StoreFetched, StoreFailure, Unqueued, loop
  <2>3. /\ failCount' \in [Title -> Nat]
        /\ \A u \in Title \ {f.title} : failCount'[u] = failCount[u]
        /\ spent' \in [DOMAIN Budget -> Nat] /\ (Undisturbed' => Undisturbed)
        /\ f.title \in reported' => f.fresh = FALSE \/ failCount'[f.title] > 0
    <3>1. CASE StoreFetched(f)
      BY <2>1, <3>1 DEF StoreFetched, TypeInv, Undisturbed
    <3>2. CASE StoreFailure(f)
      <4>1. failCount' = [failCount EXCEPT ![f.title] = failCount[f.title] + 1]
        BY <3>2 DEF StoreFailure
      <4>2. failCount' \in [Title -> Nat] /\ failCount'[f.title] > 0
        BY <2>1, <4>1, Counting DEF TypeInv
      <4>3. Spend("faults") /\ spent \in [DOMAIN Budget -> Nat] /\ "faults" \in DOMAIN Budget
        BY <3>2, BudgetFields DEF StoreFailure, TypeInv
      <4>4. spent' \in [DOMAIN Budget -> Nat] /\ (Undisturbed' => Undisturbed)
        BY <4>3, SpendType, BudgetFields DEF Undisturbed
      <4> QED
        BY <2>1, <4>1, <4>2, <4>4 DEF TypeInv
    <3> QED
      BY <1>2, <3>1, <3>2 DEF Store
  <2>4. TypeInv'
    BY <2>1, <2>2, <2>3 DEF TypeInv
  <2>5. ASSUME Undisturbed', NEW u \in reported' PROVE Pursued(u)' /\ StaleIsFollowed(u)'
    <3>1. Undisturbed /\ u \in reported /\ u \in Title
      BY <2>2, <2>3, <2>5 DEF TypeInv
    <3>2. Pursued(u) /\ StaleIsFollowed(u)
      BY <3>1 DEF PursuitInv
    <3>3. Following(u)' <=> Following(u)
      BY <2>2 DEF Following
    <3>4. CASE u = f.title
      BY <2>1, <2>3, <2>5, <3>2, <3>3, <3>4 DEF Pursued, StaleIsFollowed
    <3>5. CASE u # f.title
      BY <2>1, <2>2, <2>3, <3>1, <3>2, <3>3, <3>5 DEF Pursued, StaleIsFollowed
    <3> QED
      BY <3>4, <3>5
  <2> QED
    BY <2>4, <2>5 DEF PursuitInv
<1> QED
  BY <1>1, <1>2

\* frontier.mark_changed: while nothing is lost, an edit the sidebar reported stays
\* due, requested or being fetched until a fetch that saw it is stored.
THEOREM ReportedEditIsPursued == Spec => []ReportedIsPursued
<1>1. Init => TypeInv /\ PursuitInv
  BY DEF Init, TypeInv, PursuitInv, Fetches, Budget
<1>2. TypeInv /\ PursuitInv /\ [Next]_vars => TypeInv' /\ PursuitInv'
  <2>1. CASE UNCHANGED vars
    BY <2>1 DEF vars, TypeInv, PursuitInv, Undisturbed, Pursued, StaleIsFollowed, Following
  <2> QED
    BY <2>1, LoopStep, DisturbedStep, WorldStep, CrawlStep
    DEF Next, Frontier, Loop, Queue
<1>3. PursuitInv => ReportedIsPursued
  BY DEF PursuitInv, ReportedIsPursued, Pursued, Following
<1> QED
  BY <1>1, <1>2, <1>3, PTL DEF Spec

===============================================================================
