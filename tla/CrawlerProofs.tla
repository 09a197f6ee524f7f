---------------------------- MODULE CrawlerProofs ----------------------------
(***************************************************************************)
(* Proofs about Crawler.tla, for every set of titles and contents, every   *)
(* batch size and every bound: only the open breaker costs requests, and   *)
(* for a page that no crash and no lost message has left behind, the blob, *)
(* the last message, the hash in the row and the titles in the frontier    *)
(* agree.                                                                  *)
(***************************************************************************)
EXTENDS Crawler, TLAPS, FiniteSetTheorems, SequenceTheorems

-------------------------------------------------------------------------------
(* Types, and what the loop has in its hands at each step.                 *)

Writing == {"send", "store", "harvest"}
Steps   == Writing \cup {"poll", "fetch", "handle", "commit"}

TypeInv ==
  /\ web \in [Title -> Page]
  /\ requests \in Seq(Title)
  /\ reqCommitted \in Nat /\ reqPosition \in Nat /\ cursor \in Nat \ {0}
  /\ reqCommitted =< reqPosition /\ reqPosition =< Len(requests)
  /\ \A i \in DOMAIN results : results[i] \in Result
  /\ lastHash \in [Title -> Version \cup {Absent}]
  /\ blob \in [Title -> Version \cup {Absent}]
  /\ out \in Seq([title : Title, page : Page])
  /\ published \in [Title -> Page \cup {Absent}]
  /\ found \in [Title -> Page \cup {Absent}]
  /\ opened \in Nat
  /\ pc \in Steps

\* A batch is what lies between cursor and position; once gathered it has a
\* result for each request, and a page being written is new content.
LoopInv ==
  /\ pc # "poll" => cursor =< reqPosition + 1
  /\ pc = "fetch" => reqPosition + 1 - cursor =< MaxBatch
  /\ pc \in {"handle"} \cup Writing => Batch \subseteq DOMAIN results
  /\ pc \in Writing => cursor =< reqPosition /\ Got \in Version
  /\ pc = "commit" => cursor = reqPosition + 1

LEMMA TypeInit == Init => TypeInv /\ LoopInv
BY LinksAssumption DEF Init, TypeInv, LoopInv, Steps, Writing, Page, NoFetch

\* The request being handled is one of the log, and has a result.
LEMMA RequestedIsTitle ==
  ASSUME TypeInv, LoopInv, Handling \/ pc \in Writing
  PROVE  /\ cursor \in 1..Len(requests) /\ Requested \in Title
         /\ Got \in Result
BY DEF TypeInv, LoopInv, Handling, Batch, Requested, Got, Writing

LEMMA TypeStep == TypeInv /\ LoopInv /\ [Next]_vars => TypeInv' /\ LoopInv'
<1> SUFFICES ASSUME TypeInv, LoopInv, [Next]_vars PROVE TypeInv' /\ LoopInv'
  OBVIOUS
<1> USE ResultAssumption, BatchAssumption
<1>1. ASSUME NEW t \in Title, NEW p \in Page, Edit(t, p) PROVE TypeInv' /\ LoopInv'
  BY <1>1 DEF Edit, offsets, rows, history, TypeInv, LoopInv, Batch, Got
<1>2. ASSUME NEW t \in Title, Request(t) PROVE TypeInv' /\ LoopInv'
  BY <1>2 DEF Request, offsets, history, bounds, TypeInv, LoopInv, Batch, Got
<1>3. CASE Deliver
  <2>0. out # <<>> /\ out' = Tail(out) /\ out \in Seq([title : Title, page : Page])
    BY <1>3 DEF Deliver, TypeInv
  <2>1. Head(out) \in [title : Title, page : Page] /\ out' \in Seq([title : Title, page : Page])
    BY <2>0, HeadTailProperties
  <2>2. published' \in [Title -> Page \cup {Absent}]
    BY <1>3, <2>1 DEF Deliver, TypeInv
  <2> QED
    BY <1>3, <2>1, <2>2
    DEF Deliver, offsets, rows, history, bounds, TypeInv, LoopInv, Batch, Got
<1>4. CASE Poll
  BY <1>4 DEF Poll, rows, history, bounds, TypeInv, LoopInv, Batch, Got, NoFetch, Steps, Writing
<1>5. CASE DropBatch
  BY <1>5 DEF DropBatch, offsets, rows, history, TypeInv, LoopInv, Batch, Got, Steps, Writing
<1>6. ASSUME NEW i \in Batch, Fetch(i) PROVE TypeInv' /\ LoopInv'
  <2>1. i \in Nat /\ i \in 1..Len(requests) /\ web[requests[i]] \in Page
    BY DEF TypeInv, Batch
  <2>2. \E r \in Result : FetchedWith(i, r)
    BY <1>6, <2>1 DEF Fetch, Result
  <2>3. /\ \A j \in DOMAIN results' : results'[j] \in Result
        /\ opened' \in Nat
    BY <1>6, <2>2 DEF Fetch, FetchedWith, TypeInv
  <2>4. pc = "fetch" /\ UNCHANGED <<web, requests, reqCommitted, reqPosition, cursor, lastHash,
                   blob, out, published, found, pc>>
    BY <1>6 DEF Fetch, offsets, rows, history
  <2> QED BY <2>3, <2>4 DEF TypeInv, LoopInv, Batch, Got, Writing
<1>7. CASE Gathered
  BY <1>7 DEF Gathered, offsets, rows, history, bounds, TypeInv, LoopInv, Batch, Got, Steps, Writing
<1>8. CASE HandleSkipped \/ HandleFailed \/ HandleGone \/ HandleUnchanged
  <2>1. Handling /\ Requested \in Title /\ Got \in Result
    BY <1>8, RequestedIsTitle DEF HandleSkipped, HandleFailed, HandleGone, HandleUnchanged
  <2>2. /\ NextResult
        /\ UNCHANGED <<web, requests, reqCommitted, reqPosition, results, lastHash, blob,
                       published, opened>>
    BY <1>8 DEF HandleSkipped, HandleFailed, HandleGone, HandleUnchanged, offsets, rows,
                bounds
  <2>3. out' = out \/ out' = Append(out, [title |-> Requested, page |-> Gone])
    BY <1>8 DEF HandleSkipped, HandleFailed, HandleGone, HandleUnchanged
  <2>4. out' \in Seq([title : Title, page : Page])
    <3>1. out \in Seq([title : Title, page : Page])
      BY DEF TypeInv
    <3>2. [title |-> Requested, page |-> Gone] \in [title : Title, page : Page]
      BY <2>1 DEF Page
    <3>3. Append(out, [title |-> Requested, page |-> Gone]) \in Seq([title : Title, page : Page])
      BY <3>1, <3>2
    <3> QED
      BY <2>3, <3>1, <3>3
  <2>5. found' \in [Title -> Page \cup {Absent}]
    BY <2>1, <2>2 DEF NextResult, TypeInv
  <2> QED BY <2>1, <2>2, <2>4, <2>5 DEF Handling, NextResult, TypeInv, LoopInv, Batch, Steps, Writing
<1>9. CASE PutBlob
  <2>1. Requested \in Title
    BY <1>9, RequestedIsTitle DEF PutBlob
  <2> QED BY <1>9, <2>1 DEF PutBlob, BlobAfter, Handling, offsets, rows, history, bounds,
            TypeInv, LoopInv, Batch, Got, Steps, Writing
<1>10. CASE Send
  <2>1. Requested \in Title /\ Got \in Version
    BY <1>10, RequestedIsTitle DEF Send, LoopInv, Writing
  <2>2. out' \in Seq([title : Title, page : Page])
    BY <1>10, <2>1 DEF Send, TypeInv, Page
  <2> QED BY <1>10, <2>2 DEF Send, offsets, rows, progress, bounds,
            TypeInv, LoopInv, Batch, Got, Steps, Writing
<1>11. CASE StoreHash
  <2>1. Requested \in Title /\ Got \in Version
    BY <1>11, RequestedIsTitle DEF StoreHash, LoopInv, Writing
  <2> QED BY <1>11, <2>1 DEF StoreHash, offsets, rows, history, bounds,
            TypeInv, LoopInv, Batch, Got, Steps, Writing
<1>12. CASE Harvest
  <2>1. Requested \in Title /\ Got \in Version
    BY <1>12, RequestedIsTitle DEF Harvest, LoopInv, Writing
  <2> QED BY <1>12, <2>1 DEF Harvest, NextResult, offsets, bounds, Page,
            TypeInv, LoopInv, Batch, Steps, Writing
<1>13. CASE Flush \/ Commit \/ CommitLost
  BY <1>13 DEF Flush, Commit, CommitLost, offsets, rows, history, bounds,
            TypeInv, LoopInv, Batch, Got, Steps, Writing
<1>14. CASE Crash
  BY <1>14 DEF Crash, ResumeAt, NoFetch, rows, progress, TypeInv, LoopInv, Steps, Writing
<1>15. CASE UNCHANGED vars
  BY <1>15 DEF vars, TypeInv, LoopInv, Batch, Got
<1>16. CASE DeliveryFails
  <2>0. out # <<>> /\ out' = Tail(out) /\ out \in Seq([title : Title, page : Page])
    BY <1>16 DEF DeliveryFails, TypeInv
  <2>1. out' \in Seq([title : Title, page : Page])
    BY <2>0, HeadTailProperties
  <2> QED
    BY <1>16, <2>1
    DEF DeliveryFails, offsets, rows, progress, TypeInv, LoopInv, Batch, Got
<1> QED
  BY <1>1, <1>2, <1>3, <1>4, <1>5, <1>6, <1>7, <1>8, <1>9, <1>10, <1>11, <1>12, <1>13,
     <1>14, <1>15, <1>16
  DEF Next, CrawlerStep, FetchStep, MessageLeaves, Handle, Environment
-------------------------------------------------------------------------------
(* Requests.  The loop's position counts a batch as passed when it is polled; *)
(* what has been passed for good is what lies before the result at hand.      *)

Passed == IF pc = "poll" THEN reqPosition ELSE cursor - 1

Unhandled(n) == (1..n) \ handled

LossInv ==
  /\ Cardinality(Unhandled(Passed)) =< MaxBatch * opened
  /\ BreakerLossBounded

LEMMA UnhandledIsFinite ==
  ASSUME NEW n \in Nat
  PROVE  IsFiniteSet(Unhandled(n)) /\ Cardinality(Unhandled(n)) \in Nat
<1>1. IsFiniteSet(1..n)
  BY FS_Interval
<1> QED
  BY <1>1, FS_Subset, FS_CardinalityType DEF Unhandled

LEMMA Minus ==
  /\ \A n \in Nat \ {0} : n - 1 \in Nat
  /\ \A m, n \in Nat : m =< n => n - m \in Nat /\ n = m + (n - m)
OBVIOUS

LEMMA LossInit == Init => LossInv
<1> SUFFICES ASSUME Init PROVE LossInv
  OBVIOUS
<1>1. Passed = 0 /\ reqCommitted = 0 /\ 1..0 = {} /\ Unhandled(0) = {}
  BY DEF Init, Passed, Unhandled
<1>2. MaxBatch * opened = 0
  BY BatchAssumption DEF Init
<1> QED
  BY <1>1, <1>2, FS_EmptySet DEF LossInv, BreakerLossBounded, Unhandled

\* No step but DropBatch adds to the requests passed or committed unhandled.
LEMMA OthersHandle ==
  ASSUME TypeInv, LoopInv, [Next]_vars, ~DropBatch
  PROVE  /\ \E n \in {Passed, reqCommitted} : Unhandled(Passed)' \subseteq Unhandled(n)
         /\ \E n \in {Passed, reqCommitted} : Unhandled(reqCommitted)' \subseteq Unhandled(n)
<1> USE DEF Unhandled, Passed, TypeInv, LoopInv, offsets, progress, history
<1>1. CASE (\E t \in Title : Request(t) \/ \E p \in Page : Edit(t, p)) \/ MessageLeaves
  BY <1>1 DEF Request, Edit, MessageLeaves, Deliver, DeliveryFails
<1>2. CASE Poll
  BY <1>2 DEF Poll
<1>3. CASE Gathered \/ \E i \in Batch : Fetch(i)
  BY <1>3 DEF Gathered, Fetch
<1>4. CASE HandleSkipped \/ HandleFailed \/ HandleGone \/ HandleUnchanged
  BY <1>4 DEF HandleSkipped, HandleFailed, HandleGone, HandleUnchanged, Handling, NextResult
<1>5. CASE PutBlob \/ Send \/ StoreHash
  BY <1>5 DEF PutBlob, Send, StoreHash, Handling
<1>6. CASE Harvest
  BY <1>6 DEF Harvest, NextResult
<1>7. CASE Flush \/ Commit
  BY <1>7 DEF Flush, Commit
<1>8. CASE CommitLost \/ Crash
  BY <1>8 DEF CommitLost, Crash, ResumeAt
<1>9. CASE UNCHANGED vars
  BY <1>9 DEF vars
<1> QED
  BY <1>1, <1>2, <1>3, <1>4, <1>5, <1>6, <1>7, <1>8, <1>9
  DEF Next, CrawlerStep, FetchStep, Handle, Environment

\* The batch that meets the open breaker has at most MaxBatch requests.
LEMMA BatchIsLost ==
  ASSUME TypeInv, LoopInv, DropBatch
  PROVE  /\ opened' = opened + 1
         /\ UNCHANGED <<handled, reqCommitted>>
         /\ Passed' \in Nat
         /\ Cardinality(Unhandled(Passed')) =< Cardinality(Unhandled(Passed)) + MaxBatch
<1>1. /\ opened' = opened + 1 /\ UNCHANGED <<handled, reqCommitted, reqPosition>>
      /\ Passed = cursor - 1 /\ Passed' = reqPosition /\ Passed \in Nat /\ Passed' \in Nat
      /\ cursor \in Nat /\ Passed =< Passed' /\ reqPosition + 1 - cursor =< MaxBatch
  BY DEF DropBatch, offsets, history, Passed, TypeInv, LoopInv
<1>2. /\ IsFiniteSet(Unhandled(Passed)) /\ Cardinality(Unhandled(Passed)) \in Nat
      /\ IsFiniteSet(Unhandled(Passed')) /\ Cardinality(Unhandled(Passed')) \in Nat
  BY <1>1, UnhandledIsFinite
<1>3. /\ IsFiniteSet(Batch) /\ Cardinality(Batch) \in Nat /\ Cardinality(Batch) =< MaxBatch
  <2>1. cursor \in Int /\ reqPosition \in Int
    BY DEF TypeInv
  <2>2. /\ IsFiniteSet(cursor..reqPosition)
        /\ Cardinality(cursor..reqPosition)
             = IF cursor > reqPosition THEN 0 ELSE reqPosition - cursor + 1
    BY <2>1, FS_Interval
  <2> QED
    BY <1>1, <2>1, <2>2, BatchAssumption DEF Batch
<1>4. Unhandled(Passed') \subseteq Unhandled(Passed) \cup Batch
  BY <1>1 DEF Unhandled, Batch
<1>5. /\ IsFiniteSet(Unhandled(Passed) \cup Batch)
      /\ Cardinality(Unhandled(Passed) \cup Batch)
           = Cardinality(Unhandled(Passed)) + Cardinality(Batch)
               - Cardinality(Unhandled(Passed) \cap Batch)
      /\ Cardinality(Unhandled(Passed) \cap Batch) \in Nat
  BY <1>2, <1>3, FS_Union, FS_Intersection, FS_CardinalityType
<1>6. Cardinality(Unhandled(Passed')) =< Cardinality(Unhandled(Passed) \cup Batch)
  BY <1>4, <1>5, FS_Subset
<1> QED
  BY <1>1, <1>2, <1>3, <1>5, <1>6, BatchAssumption

Most == MaxBatch * opened

LEMMA LossStep == TypeInv /\ LoopInv /\ LossInv /\ [Next]_vars => LossInv'
<1> SUFFICES ASSUME TypeInv, LoopInv, LossInv, [Next]_vars PROVE LossInv'
  OBVIOUS
<1>1. TypeInv'
  BY TypeStep
<1>2. /\ Passed \in Nat /\ reqCommitted \in Nat /\ opened \in Nat
      /\ Passed' \in Nat /\ reqCommitted' \in Nat /\ opened' \in Nat
  <2>1. /\ cursor - 1 \in Nat /\ reqPosition \in Nat
        /\ cursor' - 1 \in Nat /\ reqPosition' \in Nat
    <3>1. cursor \in Nat \ {0} /\ reqPosition \in Nat
      BY DEF TypeInv
    <3>2. cursor' \in Nat \ {0} /\ reqPosition' \in Nat
      BY <1>1 DEF TypeInv
    <3> QED
      BY <3>1, <3>2, Minus
  <2>2. Passed \in Nat /\ Passed' \in Nat
    BY <2>1 DEF Passed
  <2> QED
    BY <1>1, <2>2 DEF TypeInv
<1>3. CASE DropBatch
  <2>1. /\ opened' = opened + 1
        /\ UNCHANGED <<handled, reqCommitted>>
        /\ Cardinality(Unhandled(Passed')) =< Cardinality(Unhandled(Passed)) + MaxBatch
    BY <1>3, BatchIsLost
  <2>2. Most' = Most + MaxBatch /\ Most \in Nat
    BY <1>2, <2>1, BatchAssumption DEF Most
  <2>3. /\ Cardinality(Unhandled(Passed)) =< Most
        /\ Cardinality(Unhandled(reqCommitted)) =< Most
    BY DEF LossInv, BreakerLossBounded, Most, Unhandled
  <2>4. /\ Cardinality(Unhandled(Passed)) \in Nat /\ Cardinality(Unhandled(Passed')) \in Nat
        /\ Cardinality(Unhandled(reqCommitted)) \in Nat
    BY <1>2, UnhandledIsFinite
  <2>5. /\ Cardinality(Unhandled(Passed')) =< Most'
        /\ Cardinality(Unhandled(reqCommitted)) =< Most'
    BY <2>1, <2>2, <2>3, <2>4, BatchAssumption
  <2> QED
    BY <2>1, <2>5 DEF LossInv, BreakerLossBounded, Most, Unhandled
<1>4. CASE ~DropBatch
  <2>1. opened =< opened'
    BY <1>2, <1>4 DEF Next, CrawlerStep, FetchStep, Handle, Environment, Request, Edit,
       MessageLeaves, Deliver, DeliveryFails, Poll, Gathered, Fetch, HandleSkipped,
       HandleFailed, HandleGone, HandleUnchanged, PutBlob,
       Send, StoreHash, Harvest, Flush, Commit, CommitLost, Crash, vars, bounds
  <2>2. Most =< Most' /\ Most \in Nat /\ Most' \in Nat
    <3> DEFINE more == opened' - opened
    <3>1. more \in Nat /\ opened' = opened + more
      BY <1>2, <2>1, Minus
    <3> HIDE DEF more
    <3>2. MaxBatch * (opened + more) = MaxBatch * opened + MaxBatch * more
      BY <1>2, <3>1, BatchAssumption
    <3>3. MaxBatch * opened \in Nat /\ MaxBatch * more \in Nat
      BY <1>2, <3>1, BatchAssumption
    <3> QED
      BY <3>1, <3>2, <3>3 DEF Most
  <2>3. \A n \in {Passed, reqCommitted} :
          /\ IsFiniteSet(Unhandled(n)) /\ Cardinality(Unhandled(n)) \in Nat
          /\ Cardinality(Unhandled(n)) =< Most
    BY <1>2, UnhandledIsFinite DEF LossInv, BreakerLossBounded, Most, Unhandled
  <2>4. ASSUME NEW S, NEW n \in {Passed, reqCommitted}, S \subseteq Unhandled(n)
        PROVE  Cardinality(S) =< Most'
    <3>1. Cardinality(S) \in Nat /\ Cardinality(S) =< Cardinality(Unhandled(n))
      BY <2>3, <2>4, FS_Subset, FS_CardinalityType
    <3> QED
      BY <2>2, <2>3, <3>1
  <2>5. /\ Cardinality(Unhandled(Passed)') =< Most'
        /\ Cardinality(Unhandled(reqCommitted)') =< Most'
    BY <1>4, <2>4, OthersHandle
  <2> QED
    BY <2>5 DEF LossInv, BreakerLossBounded, Most, Unhandled
<1> QED
  BY <1>3, <1>4

\* crawler.main: through crashes, failed fetches and lost commits, every committed
\* request has been handled, except one batch for each time the breaker was met.
THEOREM OnlyBreakerLoses == Spec => []BreakerLossBounded
<1>1. Init => TypeInv /\ LoopInv /\ LossInv
  BY TypeInit, LossInit
<1>2. TypeInv /\ LoopInv /\ LossInv /\ [Next]_vars => TypeInv' /\ LoopInv' /\ LossInv'
  BY TypeStep, LossStep
<1>3. LossInv => BreakerLossBounded
  BY DEF LossInv
<1> QED
  BY <1>1, <1>2, <1>3, PTL DEF Spec

-------------------------------------------------------------------------------
(* Stores.                                                                 *)

\* p is the last word about t on its way to docs.raw or there.
Told(t, p) ==
  \/ (\A i \in DOMAIN out : out[i].title # t) /\ published[t] = p
  \/ \E i \in DOMAIN out : /\ out[i] = [title |-> t, page |-> p]
                           /\ \A j \in DOMAIN out : i < j => out[j].title # t

\* t is being written and has got as far as one of the steps.
At(t, steps) == pc \in steps /\ Requested = t

\* Downstream has heard of the last page found and of the one in the row, or, as
\* a 404 leaves the row alone, that there is none.
Heard(t, p) == Told(t, p) \/ (Told(t, Gone) /\ p = lastHash[t])

\* What the stores say of each other: between the blob and the message, between
\* the message and the row, and between the row and the links, one is ahead.
Agree(t) ==
  /\ IF At(t, {"store", "harvest"}) THEN Told(t, Got)
     ELSE \A p \in {lastHash[t], found[t]} \ {Absent} : Heard(t, p)
  /\ At(t, {"send"}) \/ \A p \in Version : Told(t, p) => blob[t] = p
  /\ IF At(t, {"harvest"}) THEN lastHash[t] = Got
     ELSE At(t, {"store"}) \/ (lastHash[t] # Absent => Links[lastHash[t]] \subseteq known)

\* A page that is behind agrees again from its next message on: the blob that
\* message refers to has been written whatever was there before.
StoreInv ==
  /\ seen \subseteq known
  /\ pc = "send" => blob[Requested] = Got
  /\ \A t \in Title \ behind : Agree(t)

LEMMA ToldSame ==
  ASSUME UNCHANGED <<out, published>>, NEW t, NEW p
  PROVE  Told(t, p)' <=> Told(t, p)
BY DEF Told

\* A message queued is the last word about its title and about no other.
LEMMA ToldAppend ==
  ASSUME out \in Seq([title : Title, page : Page]), NEW u \in Title, NEW q \in Page,
         out' = Append(out, [title |-> u, page |-> q]), UNCHANGED published,
         NEW t \in Title, NEW p
  PROVE  Told(t, p)' <=> IF t = u THEN p = q ELSE Told(t, p)
<1> DEFINE m == [title |-> u, page |-> q]
           n == Len(out)
<1>1. m \in [title : Title, page : Page] /\ m.title = u /\ m.page = q
  OBVIOUS
<1>2. /\ n \in Nat /\ DOMAIN out = 1..n /\ DOMAIN out' = 1..(n + 1)
      /\ out'[n + 1] = m /\ \A i \in 1..n : out'[i] = out[i]
  BY <1>1
<1> HIDE DEF m, n
<1>3. n + 1 \in 1..(n + 1) /\ \A i \in 1..n : i \in 1..(n + 1) /\ i < n + 1 /\ ~(n + 1 < i)
  BY <1>2
<1>4. \A i \in 1..(n + 1) : i \in 1..n \/ i = n + 1
  BY <1>2
<1>5. CASE t = u
  <2>1. Told(t, p)' <=> out'[n + 1] = [title |-> t, page |-> p]
    BY <1>1, <1>2, <1>3, <1>4, <1>5 DEF Told
  <2> QED
    BY <1>2, <1>5, <2>1 DEF m
<1>6. CASE t # u
  <2>1. out'[n + 1].title # t /\ out'[n + 1] # [title |-> t, page |-> p]
    BY <1>1, <1>2, <1>6
  <2>2. ~(n + 1 < n + 1)
    BY <1>2
  <2> QED
    BY <1>2, <1>3, <1>4, <1>6, <2>1, <2>2 DEF Told
<1> QED
  BY <1>5, <1>6

\* Delivery moves the first message of the queue to docs.raw; a message that is
\* lost changes nothing if another about its page comes after it.
LEMMA ToldLeaves ==
  ASSUME TypeInv, MessageLeaves, NEW t \in Title \ behind', NEW p
  PROVE  Told(t, p)' <=> Told(t, p)
<1> DEFINE n == Len(out)
<1>1. /\ out \in Seq([title : Title, page : Page]) /\ out # <<>> /\ out' = Tail(out)
      /\ published \in [Title -> Page \cup {Absent}]
      /\ \/ published' = [published EXCEPT ![Head(out).title] = Head(out).page]
         \/ /\ published' = published
            /\ t = Head(out).title => \E i \in 2..n : out[i].title = t
  BY DEF MessageLeaves, Deliver, DeliveryFails, TypeInv
<1>2. /\ n \in Nat \ {0} /\ DOMAIN out = 1..n /\ DOMAIN out' = 1..(n - 1)
      /\ \A i \in 1..(n - 1) : out'[i] = out[i + 1]
      /\ Head(out) = out[1] /\ \A i \in 1..n : out[i] \in [title : Title, page : Page]
  <2>1. n \in Nat \ {0} /\ DOMAIN out = 1..n /\ \A i \in 1..n : out[i] \in [title : Title, page : Page]
    BY <1>1, EmptySeq, LenProperties
  <2>2. /\ Tail(out) \in Seq([title : Title, page : Page]) /\ Len(Tail(out)) = n - 1
        /\ \A i \in 1..Len(Tail(out)) : Tail(out)[i] = out[i + 1]
    BY <1>1, HeadTailProperties
  <2>3. DOMAIN Tail(out) = 1..(n - 1)
    BY <2>2, LenProperties
  <2>4. Head(out) = out[1]
    BY <1>1
  <2> QED
    BY <1>1, <2>1, <2>2, <2>3, <2>4
<1> HIDE DEF n
<1>3. /\ \A i \in 1..(n - 1) : i + 1 \in 1..n /\ 1 < i + 1 /\ i \in Nat
      /\ \A i \in 1..n : i = 1 \/ (i - 1 \in 1..(n - 1) /\ (i - 1) + 1 = i)
      /\ 1 \in 1..n
  BY <1>2
<1>4. \A i, j \in 1..(n - 1) : i < j <=> i + 1 < j + 1
  BY <1>2
<1> DEFINE Last(s, i) == s[i] = [title |-> t, page |-> p]
<1>5. (\E i \in DOMAIN out' : Last(out', i) /\ \A j \in DOMAIN out' : i < j => out'[j].title # t)
        <=> \E i \in 1..(n - 1) : Last(out, i + 1) /\ \A j \in 1..n : i + 1 < j => out[j].title # t
  <2>1. ASSUME NEW i \in 1..(n - 1)
        PROVE  (\A j \in 1..(n - 1) : i < j => out'[j].title # t)
                 <=> \A j \in 1..n : i + 1 < j => out[j].title # t
    <3>1. ASSUME \A j \in 1..(n - 1) : i < j => out'[j].title # t,
                 NEW j \in 1..n, i + 1 < j
          PROVE  out[j].title # t
      <4>1. j - 1 \in 1..(n - 1) /\ (j - 1) + 1 = j /\ i < j - 1
        BY <1>2, <1>3, <3>1
      <4>2. out'[j - 1] = out[j]
        BY <1>2, <4>1
      <4> QED
        BY <3>1, <4>1, <4>2
    <3>2. ASSUME \A j \in 1..n : i + 1 < j => out[j].title # t,
                 NEW j \in 1..(n - 1), i < j
          PROVE  out'[j].title # t
      BY <1>2, <1>3, <1>4, <3>2
    <3> QED
      BY <3>1, <3>2
  <2> QED
    BY <1>2, <2>1
<1>6. (\A i \in DOMAIN out' : out'[i].title # t) <=> \A i \in 1..n : 1 < i => out[i].title # t
  <2>1. ASSUME \A i \in DOMAIN out' : out'[i].title # t, NEW i \in 1..n, 1 < i
        PROVE  out[i].title # t
    <3>1. i - 1 \in 1..(n - 1) /\ (i - 1) + 1 = i
      BY <1>3, <2>1
    <3>2. out'[i - 1] = out[i]
      BY <1>2, <3>1
    <3> QED
      BY <1>2, <2>1, <3>1, <3>2
  <2>2. ASSUME \A i \in 1..n : 1 < i => out[i].title # t, NEW i \in DOMAIN out'
        PROVE  out'[i].title # t
    <3>1. i \in 1..(n - 1) /\ i + 1 \in 1..n /\ 1 < i + 1 /\ out'[i] = out[i + 1]
      BY <1>2, <1>3, <2>2
    <3> QED
      BY <2>2, <3>1
  <2> QED
    BY <2>1, <2>2
<1>7. \/ published'[t] = IF t = out[1].title THEN out[1].page ELSE published[t]
      \/ /\ published'[t] = published[t]
         /\ t = out[1].title => ~\A i \in 1..n : 1 < i => out[i].title # t
  <2>1. \A i \in 2..n : i \in 1..n /\ 1 < i
    BY <1>2
  <2> QED
    BY <1>1, <1>2, <2>1
<1>8. Last(out, 1) <=> out[1].title = t /\ out[1].page = p
  BY <1>2, <1>3
<1>9. Told(t, p) <=> \/ (\A i \in 1..n : out[i].title # t) /\ published[t] = p
                     \/ Last(out, 1) /\ \A j \in 1..n : 1 < j => out[j].title # t
                     \/ \E i \in 1..(n - 1) : /\ Last(out, i + 1)
                                              /\ \A j \in 1..n : i + 1 < j => out[j].title # t
  <2>1. (\E i \in 1..n : Last(out, i) /\ \A j \in 1..n : i < j => out[j].title # t)
          <=> \/ Last(out, 1) /\ \A j \in 1..n : 1 < j => out[j].title # t
              \/ \E i \in 1..(n - 1) : /\ Last(out, i + 1)
                                       /\ \A j \in 1..n : i + 1 < j => out[j].title # t
    <3> HIDE DEF Last
    <3> QED
      BY <1>3
  <2> QED
    BY <1>2, <2>1 DEF Told
<1>10. (\A i \in 1..n : out[i].title # t)
         <=> out[1].title # t /\ \A i \in 1..n : 1 < i => out[i].title # t
  BY <1>3, <1>2
<1> HIDE DEF Last
<1>11. Told(t, p)' <=> \/ (\A i \in 1..n : 1 < i => out[i].title # t) /\ published'[t] = p
                       \/ \E i \in 1..(n - 1) : /\ Last(out, i + 1)
                                                /\ \A j \in 1..n : i + 1 < j => out[j].title # t
  BY <1>5, <1>6 DEF Told, Last
<1> QED
  BY <1>7, <1>8, <1>9, <1>10, <1>11

LEMMA StoreInit == Init => StoreInv
<1> SUFFICES ASSUME Init PROVE StoreInv
  OBVIOUS
<1>1. ASSUME NEW t \in Title PROVE Agree(t)
  <2>1. \A p \in Version : ~Told(t, p)
    BY ResultAssumption DEF Init, Told
  <2> QED
    BY <2>1 DEF Init, Agree, At
<1> QED
  BY <1>1 DEF Init, StoreInv

\* A step that writes no store and leaves the page being written in hand.
LEMMA QuietStep ==
  ASSUME StoreInv, UNCHANGED <<lastHash, found, blob, known, seen>>, behind \subseteq behind',
         \A t \in Title \ behind' : \A p : Told(t, p)' <=> Told(t, p),
         \/ pc \notin Writing /\ pc' \notin Writing
         \/ pc' = pc /\ Requested' = Requested /\ Got' = Got
  PROVE  StoreInv'
<1>1. ASSUME NEW t \in Title, NEW steps \in SUBSET Writing
      PROVE  /\ At(t, steps)' <=> At(t, steps)
             /\ At(t, steps) => Got' = Got
  BY DEF At
<1>2. ASSUME NEW t \in Title \ behind' PROVE Agree(t)'
  <2>1. Agree(t)
    BY DEF StoreInv
  <2>2. \A p : Heard(t, p)' <=> Heard(t, p)
    BY DEF Heard
  <2>3. /\ {"store", "harvest"} \in SUBSET Writing /\ {"send"} \in SUBSET Writing
        /\ {"harvest"} \in SUBSET Writing /\ {"store"} \in SUBSET Writing
    BY DEF Writing
  <2>4. IF At(t, {"store", "harvest"})' THEN Told(t, Got)'
        ELSE \A p \in {lastHash'[t], found'[t]} \ {Absent} : Heard(t, p)'
    BY <1>1, <2>1, <2>2, <2>3 DEF Agree
  <2>5. At(t, {"send"})' \/ \A p \in Version : Told(t, p)' => blob'[t] = p
    BY <1>1, <2>1, <2>3 DEF Agree
  <2>6. IF At(t, {"harvest"})' THEN lastHash'[t] = Got'
        ELSE At(t, {"store"})' \/ (lastHash'[t] # Absent => Links[lastHash'[t]] \subseteq known')
    BY <1>1, <2>1, <2>3 DEF Agree
  <2> QED
    BY <2>4, <2>5, <2>6 DEF Agree
<1>3. pc' = "send" => blob'[Requested'] = Got'
  BY DEF StoreInv, Writing
<1> QED
  BY <1>2, <1>3 DEF StoreInv

\* The steps between polls and commits, and those of the environment.
LEMMA LoopIsQuiet ==
  ASSUME TypeInv, LoopInv, StoreInv,
         \/ \E t \in Title : Request(t) \/ \E p \in Page : Edit(t, p)
         \/ MessageLeaves \/ Poll \/ FetchStep \/ Flush \/ Commit \/ CommitLost
         \/ UNCHANGED vars
  PROVE  StoreInv'
<1>1. UNCHANGED <<lastHash, found, blob, known, seen>> /\ behind \subseteq behind'
  BY DEF Request, Edit, MessageLeaves, Deliver, DeliveryFails, progress, Poll, FetchStep,
         DropBatch, Gathered, Fetch, Flush, Commit,
         CommitLost, vars, rows, history
<1>2. \A t \in Title \ behind' : \A p : Told(t, p)' <=> Told(t, p)
  <2>1. CASE MessageLeaves
    BY <2>1, ToldLeaves
  <2>2. CASE ~MessageLeaves
    <3>1. UNCHANGED <<out, published>>
      BY <2>2 DEF Request, Edit, Poll, FetchStep, DropBatch, Gathered, Fetch, Flush, Commit,
                  CommitLost, vars
    <3> QED
      BY <3>1, ToldSame
  <2> QED
    BY <2>1, <2>2
<1>3. \/ pc \notin Writing /\ pc' \notin Writing
      \/ pc' = pc /\ Requested' = Requested /\ Got' = Got
  <2>1. CASE \E t \in Title : Request(t)
    <3>1. PICK t \in Title : Request(t)
      BY <2>1
    <3>2. /\ requests' = Append(requests, t) /\ UNCHANGED <<cursor, results, pc>>
          /\ requests \in Seq(Title)
      BY <3>1 DEF Request, TypeInv
    <3>3. pc \in Writing => cursor \in 1..Len(requests)
      BY RequestedIsTitle
    <3>4. pc \in Writing => requests'[cursor] = requests[cursor]
      BY <3>2, <3>3
    <3> QED
      BY <3>2, <3>4 DEF Requested, Got
  <2>2. CASE (\E t \in Title, p \in Page : Edit(t, p)) \/ MessageLeaves \/ UNCHANGED vars
    BY <2>2 DEF Edit, MessageLeaves, Deliver, DeliveryFails, vars, Requested, Got
  <2>3. CASE Poll \/ FetchStep \/ Flush \/ Commit \/ CommitLost
    BY <2>3 DEF Poll, FetchStep, DropBatch, Gathered, Fetch, Flush, Commit, CommitLost, Writing
  <2> QED
    BY <2>1, <2>2, <2>3
<1> QED
  BY <1>1, <1>2, <1>3, QuietStep

\* A result that says nothing new: none, or the page the row has.
LEMMA NothingNew ==
  ASSUME TypeInv, LoopInv, StoreInv, HandleSkipped \/ HandleFailed \/ HandleUnchanged
  PROVE  StoreInv'
<1>1. /\ UNCHANGED <<lastHash, blob, known, seen, behind, out, published>>
      /\ pc = "handle" /\ pc' = "handle"
      /\ Requested \in Title /\ Got \in Result
  BY RequestedIsTitle
  DEF HandleSkipped, HandleFailed, HandleUnchanged, Handling, NextResult, rows
<1>2. \/ found' = found
      \/ found' = [found EXCEPT ![Requested] = lastHash[Requested]]
  BY ResultAssumption DEF HandleSkipped, HandleFailed, HandleUnchanged, SameContent, NextResult, Page
<1>3. ASSUME NEW t \in Title \ behind PROVE Agree(t)'
  <2>1. Agree(t)
    BY DEF StoreInv
  <2>2. \A p : Told(t, p)' <=> Told(t, p)
    BY <1>1, ToldSame
  <2>3. \A steps \in SUBSET Writing : ~At(t, steps) /\ ~At(t, steps)'
    BY <1>1 DEF At, Writing
  <2>4. found'[t] \in {lastHash[t], found[t]}
    BY <1>2 DEF TypeInv
  <2> QED
    BY <1>1, <2>1, <2>2, <2>3, <2>4 DEF Agree, Heard, Writing
<1> QED
  BY <1>1, <1>3 DEF StoreInv

\* A 404 is the last word about its page and leaves the row alone.
LEMMA GoneIsTold ==
  ASSUME TypeInv, LoopInv, StoreInv, HandleGone
  PROVE  StoreInv'
<1>1. /\ UNCHANGED <<lastHash, blob, known, seen, behind, published>>
      /\ pc = "handle" /\ pc' = "handle"
      /\ Requested \in Title /\ Got = Gone
      /\ out' = Append(out, [title |-> Requested, page |-> Gone])
      /\ found' = [found EXCEPT ![Requested] = Gone]
  BY RequestedIsTitle DEF HandleGone, Handling, NextResult, Page
<1>2. ASSUME NEW t \in Title \ behind PROVE Agree(t)'
  <2>1. Agree(t)
    BY DEF StoreInv
  <2>2. \A p : Told(t, p)' <=> IF t = Requested THEN p = Gone ELSE Told(t, p)
    <3>1. Gone \in Page /\ out \in Seq([title : Title, page : Page])
      BY DEF Page, TypeInv
    <3> QED
      BY <1>1, <3>1, ToldAppend
  <2>3. /\ ~At(t, {"send"}) /\ ~At(t, {"store", "harvest"}) /\ ~At(t, {"harvest"})
        /\ ~At(t, {"store"})
    BY <1>1 DEF At
  <2>4. ~At(t, {"send"})' /\ ~At(t, {"store", "harvest"})' /\ ~At(t, {"harvest"})'
    BY <1>1 DEF At
  <2>5. found'[t] = IF t = Requested THEN Gone ELSE found[t]
    BY <1>1 DEF TypeInv
  <2> QED
    BY <1>1, <2>1, <2>2, <2>3, <2>4, <2>5, ResultAssumption DEF Agree, Heard
<1> QED
  BY <1>1, <1>2 DEF StoreInv

\* New content: each of the four steps brings one store forward.
LEMMA ContentStep ==
  ASSUME TypeInv, LoopInv, StoreInv, PutBlob \/ Send \/ StoreHash \/ Harvest
  PROVE  StoreInv'
<1>1. /\ Requested \in Title /\ Got \in Version
      /\ Got \in Page /\ out \in Seq([title : Title, page : Page])
  BY RequestedIsTitle
  DEF PutBlob, Send, StoreHash, Harvest, LoopInv, Writing, TypeInv, Page
<1>2. CASE PutBlob
  <2>1. /\ UNCHANGED <<lastHash, found, known, seen, behind, out, published>>
        /\ UNCHANGED <<requests, cursor, results>>
        /\ blob' = [blob EXCEPT ![Requested] = Got] /\ pc = "handle" /\ pc' = "send"
    BY <1>2 DEF PutBlob, Handling, BlobAfter, rows, history
  <2>2. ASSUME NEW t \in Title \ behind PROVE Agree(t)'
    <3>1. Agree(t) /\ \A p : Told(t, p)' <=> Told(t, p)
      BY <2>1, ToldSame DEF StoreInv
    <3>2. blob'[t] = IF t = Requested THEN Got ELSE blob[t]
      BY <2>1 DEF TypeInv
    <3> QED
      BY <2>1, <3>1, <3>2 DEF Agree, Heard, At, Requested, Got
  <2>3. blob'[Requested'] = Got'
    BY <1>1, <2>1 DEF TypeInv, Requested, Got
  <2> QED
    BY <1>1, <2>1, <2>2, <2>3 DEF StoreInv
<1>3. CASE Send
  <2>1. /\ UNCHANGED <<lastHash, found, known, seen, blob, published, requests, cursor, results>>
        /\ out' = Append(out, [title |-> Requested, page |-> Got]) /\ pc = "send" /\ pc' = "store"
        /\ behind' = behind \ {Requested} /\ blob[Requested] = Got
    BY <1>3 DEF Send, rows, progress, StoreInv
  <2>2. ASSUME NEW t \in Title \ behind' PROVE Agree(t)'
    <3>1. t # Requested => Agree(t)
      BY <2>1 DEF StoreInv
    <3>2. \A p : Told(t, p)' <=> IF t = Requested THEN p = Got ELSE Told(t, p)
      BY <1>1, <2>1, ToldAppend
    <3> QED
      BY <1>1, <2>1, <3>1, <3>2, ResultAssumption DEF Agree, Heard, At, Requested, Got
  <2> QED
    BY <1>1, <2>1, <2>2 DEF StoreInv
<1>4. CASE StoreHash
  <2>1. /\ UNCHANGED <<found, known, seen, behind, blob, out, published, requests, cursor, results>>
        /\ lastHash' = [lastHash EXCEPT ![Requested] = Got] /\ pc = "store" /\ pc' = "harvest"
    BY <1>4 DEF StoreHash, rows, history
  <2>2. ASSUME NEW t \in Title \ behind PROVE Agree(t)'
    <3>1. Agree(t) /\ \A p : Told(t, p)' <=> Told(t, p)
      BY <2>1, ToldSame DEF StoreInv
    <3>2. lastHash'[t] = IF t = Requested THEN Got ELSE lastHash[t]
      BY <2>1 DEF TypeInv
    <3> QED
      BY <2>1, <3>1, <3>2 DEF Agree, Heard, At, Requested, Got
  <2> QED
    BY <1>1, <2>1, <2>2 DEF StoreInv
<1>5. CASE Harvest
  <2>1. /\ UNCHANGED <<lastHash, blob, behind, out, published>>
        /\ seen' = seen \cup NewLinks /\ known' = known \cup NewLinks
        /\ pc = "harvest" /\ pc' = "handle"
        /\ found' = [found EXCEPT ![Requested] = Got]
    BY <1>1, <1>5 DEF Harvest, NextResult
  <2>2. seen \subseteq known /\ Links[Got] \subseteq known' /\ known \subseteq known'
    BY <2>1 DEF NewLinks, StoreInv
  <2>3. ASSUME NEW t \in Title \ behind PROVE Agree(t)'
    <3>1. Agree(t) /\ \A p : Told(t, p)' <=> Told(t, p)
      BY <2>1, ToldSame DEF StoreInv
    <3>2. found'[t] = IF t = Requested THEN Got ELSE found[t]
      BY <2>1 DEF TypeInv
    <3>3. ~At(t, {"send"})' /\ ~At(t, {"store", "harvest"})' /\ ~At(t, {"harvest"})'
          /\ ~At(t, {"store"})'
      BY <2>1 DEF At
    <3>4. /\ At(t, {"store", "harvest"}) <=> t = Requested
          /\ At(t, {"harvest"}) <=> t = Requested
          /\ ~At(t, {"send"}) /\ ~At(t, {"store"})
      BY <2>1 DEF At
    <3> QED
      BY <2>1, <2>2, <3>1, <3>2, <3>3, <3>4 DEF Agree, Heard
  <2> QED
    BY <1>1, <2>1, <2>2, <2>3 DEF StoreInv
<1> QED
  BY <1>2, <1>3, <1>4, <1>5

\* A crash loses what is queued and what is being written, and leaves both behind.
LEMMA CrashCuts ==
  ASSUME TypeInv, LoopInv, StoreInv, Crash
  PROVE  StoreInv'
<1>1. /\ UNCHANGED <<lastHash, found, blob, known, published>>
      /\ seen' = {} /\ out' = <<>> /\ pc' = "poll"
      /\ behind' = behind \cup {out[i].title : i \in DOMAIN out}
                    \cup (IF pc \in Writing THEN {Requested} ELSE {})
  BY DEF Crash, rows, progress, Writing
<1>2. ASSUME NEW t \in Title \ behind' PROVE Agree(t)'
  <2>1. t \notin behind /\ \A i \in DOMAIN out : out[i].title # t
    BY <1>1
  <2>2. Agree(t)
    BY <2>1 DEF StoreInv
  <2>3. \A p : Told(t, p)' <=> Told(t, p)
    BY <1>1, <2>1 DEF Told
  <2>4. /\ ~At(t, {"send"}) /\ ~At(t, {"store", "harvest"}) /\ ~At(t, {"harvest"})
        /\ ~At(t, {"store"})
    BY <1>1 DEF At, Writing
  <2>5. ~At(t, {"send"})' /\ ~At(t, {"store", "harvest"})' /\ ~At(t, {"harvest"})'
    BY <1>1 DEF At
  <2> QED
    BY <1>1, <2>2, <2>3, <2>4, <2>5 DEF Agree, Heard
<1> QED
  BY <1>1, <1>2 DEF StoreInv

LEMMA StoreStep == TypeInv /\ LoopInv /\ StoreInv /\ [Next]_vars => StoreInv'
BY LoopIsQuiet, NothingNew, GoneIsTold, ContentStep, CrashCuts
DEF Next, CrawlerStep, Handle, Environment

CrawlerInv == TypeInv /\ LoopInv /\ StoreInv

LEMMA CrawlerInvariant == Spec => []CrawlerInv
<1>1. Init => CrawlerInv
  BY TypeInit, StoreInit DEF CrawlerInv
<1>2. CrawlerInv /\ [Next]_vars => CrawlerInv'
  BY TypeStep, StoreStep DEF CrawlerInv
<1> QED
  BY <1>1, <1>2, PTL DEF Spec

\* At rest nothing is on its way: the last word about t is docs.raw's.
LEMMA RestIsAgreed ==
  ASSUME CrawlerInv, NEW t \in Title, AtRest(t)
  PROVE  /\ Agree(t) /\ \A p : Told(t, p) <=> published[t] = p
         /\ ~At(t, {"send"}) /\ ~At(t, {"store", "harvest"}) /\ ~At(t, {"harvest"})
         /\ ~At(t, {"store"})
BY DEF CrawlerInv, StoreInv, AtRest, Told, At

\* crawler.handle_results: a page that is not behind was last announced as it was
\* last found, or it stays deleted downstream after it came back unchanged.
THEOREM LastFoundIsPublished == Spec => []PublishedIsFound
<1>1. CrawlerInv => PublishedIsFound
  <2> SUFFICES ASSUME CrawlerInv, NEW t \in Title, AtRest(t), found[t] # Absent
               PROVE  published[t] = found[t] \/ (published[t] = Gone /\ found[t] = lastHash[t])
    BY DEF PublishedIsFound
  <2> QED
    BY RestIsAgreed DEF Agree, Heard
<1> QED
  BY <1>1, CrawlerInvariant, PTL

\* crawler.handle_results: the blob is written before the message that refers to it,
\* so that at rest the blob of an announced page holds what was announced.
THEOREM BlobMatchesMessage == Spec => []BlobIsPublished
<1>1. CrawlerInv => BlobIsPublished
  BY RestIsAgreed DEF BlobIsPublished, Agree
<1> QED
  BY <1>1, CrawlerInvariant, PTL

\* crawler.harvest_links: skipping the titles this process has met loses no link of
\* a stored page, for what it has met is in crawl_state.
THEOREM StoredLinksAreKnown == Spec => []LinksAreKnown
<1>1. CrawlerInv => LinksAreKnown
  BY RestIsAgreed DEF LinksAreKnown, Agree
<1> QED
  BY <1>1, CrawlerInvariant, PTL

===============================================================================
