--------------------------- MODULE KnowledgeGraph ---------------------------
(***************************************************************************)
(* The typed relations and the classes of documents: three scripts run by  *)
(* hand, one after the other, while the crawler and the parser go on.      *)
(*                                                                         *)
(*   scripts/refresh_categories.py   categories again, from the blobs      *)
(*   scripts/extract_relations.py    the relations table                   *)
(*   scripts/classify_entities.py    documents.entity_type                 *)
(*   services/api.py, facts_for      what a search shows of them           *)
(*                                                                         *)
(* The connection commits statement by statement, so each script is a      *)
(* sequence of reads and writes that other programs come between, and one  *)
(* that is stopped leaves its earlier writes behind.  A title stands for   *)
(* its doc_id.                                                             *)
(***************************************************************************)
EXTENDS EntityTypes

CONSTANTS Title,      \* titles of documents
          Alias,      \* titles of redirects
          Page(_),    \* contents a title may have, records [cats, box]
          OldCats(_), \* what the extractor once took for a page's categories
          Batch,      \* BATCH, 500 in the code
          FactLimit,  \* limit of facts_for, 24 in the code
          NoPage,
          MaxEdits    \* bound: writes of the crawler and the parser's redirects

ASSUME KGAssumption ==
  /\ \A t \in Title : NoPage \notin Page(t)
  /\ Batch \in Nat \ {0} /\ FactLimit \in Nat /\ MaxEdits \in Nat
  /\ Calendar \subseteq Title /\ DOMAIN ParentOf \subseteq Title

VARIABLES
  blob,       \* the blob of each title
  raw,        \* titles with a message in docs.raw
  row,        \* the page the row of documents was parsed from, or NoPage
  categories, \* documents.categories
  entityType, \* documents.entity_type, "none" for NULL
  redirects,  \* pairs <<alias, canonical>>
  relations,  \* the table relations
  job,        \* the script that runs and where it is, or "idle"
  todo,       \* rows it has yet to handle
  snap,       \* what it read of each row
  buf,        \* writes it still holds
  skip,       \* --skip-infobox
  current,    \* history: what follows the pages since the last write of another
              \*   program: "categories" (the column), "relations" (but those of
              \*   infoboxes), "infobox", "classes"
  clean,      \* history: no other program wrote since the script began
  outdated,   \* history: <<subject, source>> of relations that were said and are
              \*   not any more, or were read of a page whose row was gone
  edits

pages   == <<blob, raw, row, categories, redirects>>
script  == <<job, todo, snap, buf, skip>>
history == <<current, clean, outdated>>
vars    == <<pages, entityType, relations, script, history, edits>>

Rows == {t \in Title : row[t] # NoPage}

-------------------------------------------------------------------------------
(* What the scripts read.                                                  *)

SameAs == {Relation(r[1], "SAME_AS", r[2], "redirect") : r \in redirects}

InstanceOf(t, cats) == {Relation(t, "INSTANCE_OF", cats[i].name, "category")
                          : i \in {j \in DOMAIN cats : ~cats[j].noise}}

TitleAndCategories(cats) ==
  UNION {FromTitle(t) \cup InstanceOf(t, cats[t]) : t \in Rows}

Infobox(t) == FromInfobox(t, blob[t].box)

\* What a reader could extract now.
Said == SameAs \cup TitleAndCategories(categories) \cup UNION {Infobox(t) : t \in Rows}

-------------------------------------------------------------------------------
Init ==
  /\ blob \in [Title -> UNION {Page(t) : t \in Title}] /\ \A t \in Title : blob[t] \in Page(t)
  /\ row \in {[t \in Title |-> IF t \in S THEN blob[t] ELSE NoPage] : S \in SUBSET Title}
  /\ raw = Title \ Rows
  /\ \E old \in SUBSET Title :
       categories = [t \in Title |-> IF row[t] = NoPage THEN <<>>
                                     ELSE IF t \in old THEN OldCats(row[t])
                                     ELSE row[t].cats]
  /\ entityType = [t \in Title |-> "none"]
  /\ redirects = {} /\ relations = {}
  /\ job = "idle" /\ todo = {} /\ snap = [t \in Title |-> <<>>]
  /\ buf = {} /\ skip = FALSE
  /\ current = {} /\ clean = TRUE /\ outdated = {} /\ edits = 0

-------------------------------------------------------------------------------
(* The other programs.                                                     *)

\* What was said, and is not after the step.
NoLongerSaid == {<<r.subject, r.source>> : r \in Said \ Said'}

Disturb == current' = {} /\ clean' = FALSE /\ outdated' = outdated \cup NoLongerSaid
Edit    == edits < MaxEdits /\ edits' = edits + 1

\* The crawler stores a new version and publishes it.
Crawl(t, p) ==
  /\ Edit /\ p # blob[t]
  /\ blob' = [blob EXCEPT ![t] = p] /\ raw' = raw \cup {t}
  /\ UNCHANGED <<row, categories, redirects>>
  /\ Disturb /\ UNCHANGED <<entityType, relations, script>>

\* The parser stores the row of the page; entity_type is not among its columns.
Parse(t) ==
  /\ t \in raw /\ raw' = raw \ {t}
  /\ row' = [row EXCEPT ![t] = blob[t]]
  /\ categories' = [categories EXCEPT ![t] = IF row[t] = blob[t] THEN @ ELSE blob[t].cats]
  /\ UNCHANGED <<blob, redirects>>
  /\ Disturb /\ UNCHANGED <<entityType, relations, script, edits>>

\* The page is gone, and the parser deletes its row.  Its relations stay.
Remove(t) ==
  /\ Edit /\ t \in Rows \ raw
  /\ row' = [row EXCEPT ![t] = NoPage]
  /\ categories' = [categories EXCEPT ![t] = <<>>]
  /\ entityType' = [entityType EXCEPT ![t] = "none"]
  /\ UNCHANGED <<blob, raw, redirects>>
  /\ Disturb /\ UNCHANGED <<relations, script>>

\* The parser, or fold_redirects, finds that a calls itself t.
Redirect(a, t) ==
  /\ Edit /\ <<a, t>> \notin redirects
  /\ redirects' = {r \in redirects : r[1] # a} \cup {<<a, t>>}
  /\ UNCHANGED <<blob, raw, row, categories>>
  /\ Disturb /\ UNCHANGED <<entityType, relations, script>>

-------------------------------------------------------------------------------
(* Steps of the scripts.                                                   *)

Start(j, rows, held) == job' = j /\ todo' = rows /\ buf' = held

\* The script ends; what it has brought up to date follows the pages if no other
\* program wrote and it could read everything.
Finish(done) ==
  /\ Start("idle", {}, {})
  /\ snap' = [t \in Title |-> <<>>] /\ skip' = FALSE
  /\ current' = IF clean THEN current \cup done ELSE current
  /\ UNCHANGED <<clean, outdated>>

\* It is stopped, or its connection breaks.
Stop ==
  /\ job # "idle"
  /\ Start("idle", {}, {})
  /\ snap' = [t \in Title |-> <<>>] /\ skip' = FALSE
  /\ UNCHANGED <<pages, entityType, relations, history, edits>>

\* The blob of t cannot be read or decompressed: the script counts it and goes on.
Unreadable(t) ==
  /\ job \in {"refresh", "infobox"} /\ t \in todo /\ Cardinality(buf) < Batch
  /\ todo' = todo \ {t} /\ clean' = FALSE
  /\ UNCHANGED <<pages, entityType, relations, job, snap, buf, skip, current, outdated, edits>>

Held == Cardinality(buf) >= Batch \/ (todo = {} /\ buf # {})

-------------------------------------------------------------------------------
(* refresh_categories.                                                     *)

RefreshStart ==
  /\ job = "idle"
  /\ Start("refresh", Rows, {}) /\ snap' = categories /\ clean' = TRUE
  /\ UNCHANGED <<pages, entityType, relations, skip, current, outdated, edits>>

\* Mutant: only the numbers of categories are compared.
MutantDiffers(t) == Len(blob[t].cats) # Len(snap[t])

\* The blob of t against the categories read at the start.
Differs(t) == blob[t].cats # snap[t]

RefreshRead(t) ==
  /\ job = "refresh" /\ t \in todo /\ Cardinality(buf) < Batch
  /\ todo' = todo \ {t}
  /\ buf' = buf \cup (IF Differs(t) THEN {<<t, blob[t].cats>>} ELSE {})
  /\ UNCHANGED <<pages, entityType, relations, job, snap, skip, history, edits>>

\* UPDATE ... WHERE title = ...
Updated(cats, updates) ==
  [t \in Title |-> IF t \in Rows /\ \E u \in updates : u[1] = t
                   THEN (CHOOSE u \in updates : u[1] = t)[2] ELSE cats[t]]

RefreshWrite ==
  /\ job = "refresh" /\ Held
  /\ categories' = Updated(categories, buf)
  /\ buf' = {}
  /\ UNCHANGED <<blob, raw, row, redirects, entityType, relations, job, todo, snap,
                 skip, current, clean, edits>>
  /\ outdated' = outdated \cup NoLongerSaid

RefreshEnd ==
  /\ job = "refresh" /\ todo = {} /\ buf = {}
  /\ Finish({"categories"}) /\ UNCHANGED <<pages, entityType, relations, edits>>

-------------------------------------------------------------------------------
(* extract_relations.                                                      *)

\* Mutant: the object is not part of the key.
MutantInserted(rels) ==
  relations \cup {r \in rels : \A q \in relations : <<q.subject, q.predicate, q.source>>
                                                     # <<r.subject, r.predicate, r.source>>}

\* INSERT ... ON CONFLICT DO UPDATE: nothing is ever deleted.
Inserted(rels) == relations \cup rels

ExtractStart ==
  /\ job = "idle"
  /\ Start("redirects", {}, SameAs) /\ skip' \in BOOLEAN /\ clean' = TRUE
  /\ UNCHANGED <<pages, entityType, relations, snap, current, outdated, edits>>

WriteRedirects ==
  /\ job = "redirects"
  /\ relations' = Inserted(buf) /\ Start("titles", {}, {})
  /\ UNCHANGED <<pages, entityType, snap, skip, history, edits>>

\* Titles and categories come in one query, ...
ReadTitles ==
  /\ job = "titles"
  /\ Start("categories", {}, TitleAndCategories(categories))
  /\ UNCHANGED <<pages, entityType, relations, snap, skip, history, edits>>

\* ... and are written the titles first, then the categories (5,000 at a time).
WriteTitles ==
  /\ job = "categories" /\ \E r \in buf : r.source = "title"
  /\ relations' = Inserted({r \in buf : r.source = "title"})
  /\ buf' = {r \in buf : r.source # "title"}
  /\ UNCHANGED <<pages, entityType, job, todo, snap, skip, history, edits>>

WriteCategories ==
  /\ job = "categories" /\ \A r \in buf : r.source = "category"
  /\ relations' = Inserted(buf) /\ Start(IF skip THEN "end" ELSE "boxes", {}, {})
  /\ UNCHANGED <<pages, entityType, snap, skip, history, edits>>

ReadBlobs ==
  /\ job = "boxes"
  /\ Start("infobox", Rows, {})
  /\ UNCHANGED <<pages, entityType, relations, snap, skip, history, edits>>

ReadInfobox(t) ==
  /\ job = "infobox" /\ t \in todo /\ Cardinality(buf) < Batch
  /\ todo' = todo \ {t} /\ buf' = buf \cup Infobox(t)
  /\ outdated' = outdated \cup (IF t \in Rows THEN {} ELSE {<<t, "infobox">>})
  /\ UNCHANGED <<pages, entityType, relations, job, snap, skip, current, clean, edits>>

WriteInfobox ==
  /\ job = "infobox" /\ Held
  /\ relations' = Inserted(buf) /\ buf' = {}
  /\ UNCHANGED <<pages, entityType, job, todo, snap, skip, history, edits>>

ExtractEnd ==
  /\ job = "end" \/ (job = "infobox" /\ todo = {} /\ buf = {})
  /\ Finish((IF "categories" \in current THEN {"relations"} ELSE {})
              \cup (IF skip THEN {} ELSE {"infobox"}))
  /\ UNCHANGED <<pages, entityType, relations, edits>>

-------------------------------------------------------------------------------
(* classify_entities.                                                      *)

PredicatesOf(t) ==
  {r.predicate : r \in {q \in relations : q.subject = t /\ q.source = "infobox"}}

ClassifyStart ==
  /\ job = "idle"
  /\ Start("predicates", {}, {})
  /\ snap' = [t \in Title |-> PredicatesOf(t)] /\ clean' = TRUE
  /\ UNCHANGED <<pages, entityType, relations, skip, current, outdated, edits>>

\* The second query; the classes are computed before the first is written.
ReadCategories ==
  /\ job = "predicates"
  /\ Start("classify", Rows, {})
  /\ snap' = [t \in Title |-> Classify(categories[t], snap[t], t)]
  /\ UNCHANGED <<pages, entityType, relations, skip, history, edits>>

\* UPDATE ... WHERE title = ...
Typed(t) == IF t \in todo \cap Rows THEN snap[t] ELSE entityType[t]

WriteTypes ==
  /\ job = "classify"
  /\ entityType' = [t \in Title |-> Typed(t)]
  /\ Finish(IF {"categories", "infobox"} \subseteq current THEN {"classes"} ELSE {})
  /\ UNCHANGED <<pages, relations, edits>>

-------------------------------------------------------------------------------
(* facts_for: what a search shows of the pages it found, in one query.     *)

PersonOnly == {"birth", "death", "education", "spouse", "parent", "child", "sibling",
               "family", "occupation"}

Fit(titles) ==
  {r \in relations : /\ r.subject \in titles /\ r.source = "infobox"
                     /\ r.predicate \in PersonOnly => entityType[r.subject] = "person"}

\* FactLimit of the rows in S, or all when there are fewer.
Cut(S) == IF Cardinality(S) <= FactLimit THEN {S}
          ELSE {F \in SUBSET S : Cardinality(F) = FactLimit}

\* Mutant: the filter comes after the limit.
MutantFactsFor(titles) ==
  {F \cap Fit(titles) : F \in Cut({r \in relations : /\ r.subject \in titles
                                                    /\ r.source = "infobox"})}

\* The answers it may give: which rows are cut is up to PageRank and, in a document,
\* to the collation of the predicates.
FactsFor(titles) == Cut(Fit(titles))

-------------------------------------------------------------------------------
Next ==
  \/ \E t \in Title : \E p \in Page(t) : Crawl(t, p)
  \/ \E t \in Title : Parse(t) \/ Remove(t)
  \/ \E a \in Alias, t \in Title : Redirect(a, t)
  \/ Stop
  \/ \E t \in Title : Unreadable(t)
  \/ RefreshStart \/ RefreshWrite \/ RefreshEnd \/ \E t \in Title : RefreshRead(t)
  \/ ExtractStart \/ WriteRedirects \/ ReadTitles \/ WriteTitles \/ WriteCategories
  \/ ReadBlobs \/ WriteInfobox \/ ExtractEnd \/ \E t \in Title : ReadInfobox(t)
  \/ ClassifyStart \/ ReadCategories \/ WriteTypes

Spec == Init /\ [][Next]_vars

-------------------------------------------------------------------------------
PageCategories == [t \in Title |-> blob[t].cats]

\* Once the extraction has followed, the table holds what pages, titles and
\* redirects say.  Nothing in it is anything else, but for a subject that once said
\* more under the same source: a relation is never taken back, not even one of a
\* category that refresh_categories has replaced.
RelationsFollowPages ==
  /\ "relations" \in current => SameAs \cup TitleAndCategories(PageCategories) \subseteq relations
  /\ "infobox" \in current => \A t \in Rows : Infobox(t) \subseteq relations
  /\ \A r \in relations \ Said : <<r.subject, r.source>> \in outdated

\* Once the classifier has followed the other two (in either order, and the
\* extraction with --skip-infobox any time after, as refresh_categories.py:12-14
\* has it), the class of a document is that of the categories of its page, whatever
\* wrong categories the column and the table had before, and of the infobox
\* relations in the table; which are those of its page, unless its infobox once
\* said more.
TypesFollowPages ==
  "classes" \in current =>
    \A t \in Rows :
      /\ entityType[t] = Classify(blob[t].cats, PredicatesOf(t), t)
      /\ <<t, "infobox">> \notin outdated =>
           PredicatesOf(t) = {r.predicate : r \in Infobox(t)}

\* What the rules of entity_types.py come to: the infobox is a person's and no
\* place's, or it decides nothing and the categories of the page say so.
IsPerson(t) ==
  LET preds == PredicatesOf(t)
  IN  /\ t \notin Calendar
      /\ \/ /\ preds \cap PredSignals["person"] # {}
            /\ preds \cap PredSignals["place"] = {}
         \/ /\ \A c \in DOMAIN PredSignals : preds \cap PredSignals[c] = {}
            /\ FromCategories(blob[t].cats, t) = "person"

\* The class decides which facts are shown (api.py:260-264), and the infobox mostly
\* decides the class.  A search shows no row of a person for a page that is none;
\* and it leaves nothing out of the infobox of one that is, unless it shows as many
\* facts as it may.  A stray row is told from one of a person only if it is of
\* "family", or next to a row of a place: any other makes the page a person's.
PersonFactsAreServed ==
  "classes" \in current =>
    \A titles \in SUBSET Rows : \A F \in FactsFor(titles) :
      /\ \A r \in F : r.predicate \in PersonOnly => IsPerson(r.subject)
      /\ Cardinality(F) < FactLimit =>
           \A t \in titles : IsPerson(t) =>
             {r \in relations : r.subject = t /\ r.source = "infobox"} \subseteq F
===============================================================================
