------------------------- MODULE KnowledgeGraphProofs -------------------------
(***************************************************************************)
(* Proofs about KnowledgeGraph.tla, for every set of titles, redirects and *)
(* pages, every batch size and every number of edits: whatever the three   *)
(* scripts read before an edit, were stopped at or could not read, the     *)
(* categories, the relations and the classes follow the pages once the     *)
(* scripts have followed them, refresh and extraction in either order and  *)
(* the classes last, with nothing in between.                              *)
(***************************************************************************)
EXTENDS KnowledgeGraph, TLAPS

-------------------------------------------------------------------------------
(* The invariants.                                                         *)

ExtractJobs == {"redirects", "titles", "categories", "boxes", "infobox", "end"}

\* Where the scripts are, and what each result was computed from.
PlaceInv ==
  /\ "relations" \in current => "categories" \in current
  /\ "classes" \in current => {"categories", "infobox"} \subseteq current
  /\ todo \subseteq Title
  /\ job = "end" => skip
  /\ job \in {"titles", "boxes", "end"} => buf = {}
  /\ job \in {"redirects", "categories"} => \A r \in buf : r.source # "infobox"

\* Nothing was written by others since the script that runs began, or since the
\* categories were refreshed.
Undisturbed == clean \/ "categories" \in current

\* The update that refresh_categories holds for t is what the blob says.
IsUpdate(u) == u[1] \notin todo /\ u[2] = blob[u[1]].cats

\* refresh_categories: an update it holds is right and final, a row it has yet to
\* handle is as it read it, and a row it has handled is right or held.
RefreshInv ==
  /\ "categories" \in current => \A t \in Rows : categories[t] = blob[t].cats
  /\ job = "refresh" /\ Undisturbed =>
       /\ \A u \in buf : IsUpdate(u)
       /\ \A t \in todo : snap[t] = categories[t]
  /\ job = "refresh" /\ clean =>
       \A t \in Rows \ todo : categories[t] = blob[t].cats \/ \E u \in buf : u[1] = t

\* extract_relations, whose relations so far are in the table or held.
Extracted(rels) == rels \subseteq relations \cup buf

ExtractInv ==
  /\ "relations" \in current => SameAs \cup TitleAndCategories(categories) \subseteq relations
  /\ "infobox" \in current =>
       /\ \A t \in Rows : Infobox(t) \subseteq relations
       /\ job = "infobox" => buf \subseteq relations /\ todo \subseteq Rows
  /\ clean =>
       /\ job \in ExtractJobs => Extracted(SameAs)
       /\ job \in {"categories", "boxes", "infobox", "end"} =>
            Extracted(TitleAndCategories(categories))
       /\ job = "infobox" => \A t \in Rows \ todo : Extracted(Infobox(t))

\* What is said, or once was.
Kept(r) == r \in Said \/ <<r.subject, r.source>> \in outdated

\* The table has nothing, and the script holds nothing, that never was said.
NothingElse ==
  /\ \A r \in relations : Kept(r)
  /\ job \in ExtractJobs => \A r \in buf : Kept(r)

\* classify_entities: what it knows of a document, and what it makes of it.
ClassOf(t) == Classify(categories[t], PredicatesOf(t), t)

Ready == {"categories", "infobox"} \subseteq current

ClassInv ==
  /\ Ready /\ job = "predicates" => \A t \in Title : snap[t] = PredicatesOf(t)
  /\ Ready /\ job = "classify" => todo = Rows /\ \A t \in Rows : snap[t] = ClassOf(t)
  /\ "classes" \in current => \A t \in Rows : entityType[t] = ClassOf(t)

GraphInv == PlaceInv /\ RefreshInv /\ ExtractInv /\ NothingElse /\ ClassInv

-------------------------------------------------------------------------------
(* What a step leaves alone.                                               *)

\* What the pages say depends on the rows, the blobs, the redirects, and the
\* categories of the rows.
LEMMA SaidIsSame ==
  ASSUME UNCHANGED <<blob, row, redirects>>, \A t \in Rows : categories'[t] = categories[t]
  PROVE  /\ Rows' = Rows /\ Said' = Said /\ SameAs' = SameAs
         /\ TitleAndCategories(categories)' = TitleAndCategories(categories)
         /\ \A t \in Title : Infobox(t)' = Infobox(t)
<1>1. Rows' = Rows
  BY DEF Rows
<1>2. SameAs' = SameAs
  BY DEF SameAs
<1>3. TitleAndCategories(categories)' = TitleAndCategories(categories)
  BY <1>1 DEF TitleAndCategories
<1>4. \A t : Infobox(t)' = Infobox(t)
  BY DEF Infobox
<1>5. Said' = Said
  BY <1>1, <1>2, <1>3, <1>4 DEF Said
<1> QED BY <1>1, <1>2, <1>3, <1>4, <1>5

LEMMA PagesAreSame ==
  ASSUME UNCHANGED pages
  PROVE  /\ Rows' = Rows /\ Said' = Said /\ SameAs' = SameAs
         /\ TitleAndCategories(categories)' = TitleAndCategories(categories)
         /\ \A t \in Title : Infobox(t)' = Infobox(t)
BY SaidIsSame DEF pages

\* The classes depend on the infobox relations and the categories.
LEMMA ClassesAreSame ==
  ASSUME NEW t, categories'[t] = categories[t],
         {r \in relations' : r.source = "infobox"} = {r \in relations : r.source = "infobox"}
  PROVE  PredicatesOf(t)' = PredicatesOf(t) /\ ClassOf(t)' = ClassOf(t)
<1>1. \A rels : {q \in rels : q.subject = t /\ q.source = "infobox"} =
                 {q \in {r \in rels : r.source = "infobox"} : q.subject = t}
  OBVIOUS
<1>2. PredicatesOf(t)' = PredicatesOf(t)
  BY <1>1 DEF PredicatesOf
<1> QED BY <1>2 DEF ClassOf

\* The relations of t's infobox have the subject t and the source "infobox", ...
LEMMA InfoboxSays ==
  ASSUME NEW t, NEW r \in Infobox(t)
  PROVE  r.subject = t /\ r.source = "infobox"
<1>1. ASSUME NEW box, NEW rows, NEW q \in RowsSay(t, box, rows)
      PROVE  q.subject = t /\ q.source = "infobox"
  <2>1. PICK i \in rows :
          \E o \in IF Targets(box[i]) # {} THEN Targets(box[i]) ELSE {box[i].text} :
            q = Relation(t, box[i].label, o, "infobox")
    BY <1>1 DEF RowsSay
  <2> QED BY <2>1 DEF Relation
<1> QED BY <1>1 DEF Infobox, FromInfobox

\* ... and no others that are said have.
LEMMA OthersSay ==
  \A r \in SameAs \cup TitleAndCategories(categories) : r.source # "infobox"
<1>1. \A r \in SameAs : r.source # "infobox"
  BY DEF SameAs, Relation
<1>2. \A u : \A r \in FromTitle(u) : r.source # "infobox"
  BY DEF FromTitle, Relation
<1>3. \A u : \A r \in InstanceOf(u, categories[u]) : r.source # "infobox"
  BY DEF InstanceOf, Relation
<1> QED BY <1>1, <1>2, <1>3 DEF TitleAndCategories

\* A step that notes what it takes back leaves nothing in the table unexplained.
LEMMA KeptStays ==
  ASSUME NEW r, Kept(r),
         outdated' = outdated \cup NoLongerSaid \/ (Said' = Said /\ outdated \subseteq outdated')
  PROVE  Kept(r)'
BY DEF Kept, NoLongerSaid

-------------------------------------------------------------------------------
(* Steps.                                                                  *)

LEMMA GraphInit == Init => GraphInv
BY DEF Init, GraphInv, PlaceInv, RefreshInv, ExtractInv, NothingElse, ClassInv, Ready, ExtractJobs

\* An edit takes the scripts back to the start; the table keeps what is said as
\* long as the edit takes nothing back.
LEMMA EditKeepsInv ==
  ASSUME GraphInv, Disturb, UNCHANGED <<relations, script>>
  PROVE  GraphInv'
<1> USE DEF Disturb, script
<1>1. PlaceInv'
  BY DEF GraphInv, PlaceInv
<1>2. RefreshInv' /\ ExtractInv' /\ ClassInv'
  BY DEF RefreshInv, ExtractInv, ClassInv, Undisturbed, Ready
<1>3. NothingElse'
  BY KeptStays DEF GraphInv, NothingElse
<1> QED BY <1>1, <1>2, <1>3 DEF GraphInv

\* A step of a script that ends it.
LEMMA EndKeepsInv ==
  ASSUME GraphInv, UNCHANGED <<pages, entityType, relations, outdated, current>>,
         job' = "idle", todo' = {}
  PROVE  GraphInv'
<1>1. PlaceInv'
  BY DEF GraphInv, PlaceInv
<1>2. \A t \in Rows : ClassOf(t)' = ClassOf(t)
  BY ClassesAreSame DEF pages
<1>3. RefreshInv'
  BY PagesAreSame DEF GraphInv, RefreshInv, pages
<1>4. ExtractInv'
  BY PagesAreSame DEF GraphInv, ExtractInv, ExtractJobs, Rows
<1>5. NothingElse'
  BY PagesAreSame, KeptStays DEF GraphInv, NothingElse, ExtractJobs
<1>6. ClassInv'
  BY <1>2, PagesAreSame DEF GraphInv, ClassInv
<1> QED BY <1>1, <1>3, <1>4, <1>5, <1>6 DEF GraphInv

\* Steps that read, and steps of a script that write no table of another.
LEMMA ReadKeepsInv ==
  ASSUME GraphInv, UNCHANGED <<pages, entityType, relations, current>>,
         outdated \subseteq outdated', PlaceInv',
         job' = "refresh" /\ Undisturbed' =>
           /\ \A u \in buf' : IsUpdate(u)'
           /\ \A t \in todo' : snap'[t] = categories'[t],
         job' = "refresh" /\ clean' =>
           \A t \in Rows \ todo' : categories[t] = blob[t].cats \/ \E u \in buf' : u[1] = t,
         "infobox" \in current /\ job' = "infobox" =>
           buf' \subseteq relations /\ todo' \subseteq Rows,
         clean' =>
           /\ job' \in ExtractJobs => SameAs \subseteq relations \cup buf'
           /\ job' \in {"categories", "boxes", "infobox", "end"} =>
                TitleAndCategories(categories) \subseteq relations \cup buf'
           /\ job' = "infobox" =>
                \A t \in Rows \ todo' : Infobox(t) \subseteq relations \cup buf',
         job' \in ExtractJobs => \A r \in buf' : Kept(r)',
         Ready /\ job' = "predicates" => \A t \in Title : snap'[t] = PredicatesOf(t),
         Ready /\ job' = "classify" =>
           todo' = Rows /\ \A t \in Rows : snap'[t] = ClassOf(t)
  PROVE  GraphInv'
<1>1. \A t \in Title : PredicatesOf(t)' = PredicatesOf(t) /\ ClassOf(t)' = ClassOf(t)
  BY ClassesAreSame DEF pages
<1>2. /\ Rows' = Rows /\ Said' = Said /\ SameAs' = SameAs
      /\ TitleAndCategories(categories)' = TitleAndCategories(categories)
      /\ \A t \in Title : Infobox(t)' = Infobox(t)
  BY PagesAreSame
<1>3. UNCHANGED <<blob, categories, entityType, relations, current>> /\ Rows \subseteq Title
  BY DEF pages, Rows
<1>4. RefreshInv'
  BY <1>2, <1>3 DEF GraphInv, RefreshInv
<1>5. ExtractInv'
  BY <1>2, <1>3 DEF GraphInv, ExtractInv, Extracted
<1>6. NothingElse'
  BY <1>2, <1>3, KeptStays DEF GraphInv, NothingElse
<1>7. ClassInv'
  BY <1>1, <1>2, <1>3 DEF GraphInv, ClassInv, Ready
<1> QED BY <1>4, <1>5, <1>6, <1>7 DEF GraphInv

-------------------------------------------------------------------------------
(* refresh_categories.                                                     *)

LEMMA RefreshStartKeepsInv == ASSUME GraphInv, RefreshStart PROVE GraphInv'
<1>1. /\ UNCHANGED <<pages, entityType, relations, current, skip, outdated>>
      /\ job' = "refresh" /\ todo' = Rows /\ buf' = {} /\ snap' = categories
      /\ UNCHANGED categories
  BY DEF RefreshStart, Start, pages
<1>2. PlaceInv'
  BY <1>1 DEF GraphInv, PlaceInv, Rows
<1> QED BY <1>1, <1>2, ReadKeepsInv DEF ExtractJobs

LEMMA RefreshReadKeepsInv ==
  ASSUME GraphInv, NEW t \in Title, RefreshRead(t) PROVE GraphInv'
<1>1. /\ UNCHANGED <<pages, entityType, relations, current, skip, outdated, clean, job, snap>>
      /\ job = "refresh" /\ t \in todo /\ todo' = todo \ {t}
      /\ buf' = buf \cup (IF Differs(t) THEN {<<t, blob[t].cats>>} ELSE {})
      /\ UNCHANGED <<blob, categories>>
  BY DEF RefreshRead, pages, history
<1>2. PlaceInv'
  BY <1>1 DEF GraphInv, PlaceInv
<1>3. ASSUME Undisturbed
      PROVE  (\A u \in buf' : IsUpdate(u)') /\ \A v \in todo' : snap'[v] = categories'[v]
  BY <1>1, <1>3 DEF GraphInv, RefreshInv, IsUpdate
<1>4. ASSUME clean, NEW v \in Rows \ todo'
      PROVE  categories[v] = blob[v].cats \/ \E u \in buf' : u[1] = v
  <2>1. CASE v = t
    <3>1. snap[t] = categories[t]
      BY <1>1, <1>4 DEF GraphInv, RefreshInv, Undisturbed
    <3>2. Differs(t) => <<t, blob[t].cats>> \in buf'
      BY <1>1
    <3> QED BY <2>1, <3>1, <3>2 DEF Differs
  <2>2. CASE v # t
    BY <1>1, <1>4, <2>2 DEF GraphInv, RefreshInv
  <2> QED BY <2>1, <2>2
<1>5. Undisturbed' = Undisturbed
  BY <1>1 DEF Undisturbed
<1> QED BY <1>1, <1>2, <1>3, <1>4, <1>5, ReadKeepsInv DEF ExtractJobs

\* The statement leaves a row alone, or writes what its blob says; a row that
\* has followed its blob stays as it is, and so does what the pages say.
LEMMA RefreshWriteKeepsInv == ASSUME GraphInv, RefreshWrite PROVE GraphInv'
<1>1. /\ UNCHANGED <<blob, row, redirects, entityType, relations, current, skip, clean, job>>
      /\ UNCHANGED <<todo, snap>>
      /\ job = "refresh" /\ buf' = {} /\ categories' = Updated(categories, buf)
      /\ outdated' = outdated \cup NoLongerSaid
  BY DEF RefreshWrite
<1>2. PlaceInv'
  BY <1>1 DEF GraphInv, PlaceInv
<1>3. Rows' = Rows /\ Undisturbed' = Undisturbed /\ Rows \subseteq Title /\ todo \subseteq Title
  BY <1>1 DEF GraphInv, PlaceInv, Rows, Undisturbed
<1>4. ASSUME Undisturbed, NEW t \in Title
      PROVE  /\ (t \in Rows /\ \E u \in buf : u[1] = t) => categories'[t] = blob[t].cats
             /\ ~(t \in Rows /\ \E u \in buf : u[1] = t) => categories'[t] = categories[t]
  <2>1. \A u \in buf : IsUpdate(u)
    BY <1>1, <1>4 DEF GraphInv, RefreshInv
  <2>2. CASE t \in Rows /\ \E u \in buf : u[1] = t
    <3> DEFINE u == CHOOSE u \in buf : u[1] = t
    <3>1. u \in buf /\ u[1] = t
      BY <2>2
    <3>2. categories'[t] = u[2]
      BY <1>1, <2>2 DEF Updated
    <3> QED BY <2>1, <2>2, <3>1, <3>2 DEF IsUpdate
  <2>3. CASE ~(t \in Rows /\ \E u \in buf : u[1] = t)
    BY <1>1, <2>3 DEF Updated
  <2> QED BY <2>2, <2>3
<1>5. ASSUME "categories" \in current
      PROVE  /\ \A t \in Rows : categories'[t] = blob[t].cats
             /\ \A t \in Rows : categories'[t] = categories[t]
  <2>1. Undisturbed
    BY <1>5 DEF Undisturbed
  <2> QED BY <1>3, <1>4, <1>5, <2>1 DEF GraphInv, RefreshInv
<1>6. ASSUME "categories" \in current
      PROVE  /\ SameAs' = SameAs
             /\ TitleAndCategories(categories)' = TitleAndCategories(categories)
             /\ \A t \in Rows : ClassOf(t)' = ClassOf(t)
  BY <1>1, <1>5, <1>6, SaidIsSame, ClassesAreSame
<1>7. RefreshInv'
  <2>1. (job = "refresh" /\ Undisturbed =>
           /\ \A u \in buf : IsUpdate(u)
           /\ \A t \in todo : snap[t] = categories[t])'
    <3> SUFFICES ASSUME Undisturbed, NEW t \in todo PROVE snap[t] = categories'[t]
      BY <1>1, <1>3
    <3>1. \A u \in buf : u[1] # t
      BY <1>1 DEF GraphInv, RefreshInv, IsUpdate
    <3> QED BY <1>1, <1>3, <1>4, <3>1 DEF GraphInv, RefreshInv
  <2>2. ASSUME clean, NEW t \in Rows \ todo PROVE categories'[t] = blob[t].cats
    BY <1>1, <1>3, <1>4, <2>2 DEF GraphInv, RefreshInv, Undisturbed
  <2> QED BY <1>1, <1>3, <1>5, <2>1, <2>2 DEF RefreshInv
<1>8. \A t \in Rows : Infobox(t)' = Infobox(t)
  BY <1>1 DEF Infobox
<1>9. ExtractInv'
  BY <1>1, <1>3, <1>6, <1>8 DEF GraphInv, PlaceInv, ExtractInv, ExtractJobs
<1>10. NothingElse'
  BY <1>1, KeptStays DEF GraphInv, NothingElse, ExtractJobs
<1>11. ClassInv'
  BY <1>1, <1>3, <1>6 DEF GraphInv, PlaceInv, ClassInv
<1> QED BY <1>2, <1>7, <1>9, <1>10, <1>11 DEF GraphInv

\* Every row was handled, and nothing is held: the categories follow the blobs.
LEMMA RefreshEndKeepsInv == ASSUME GraphInv, RefreshEnd PROVE GraphInv'
<1>1. /\ UNCHANGED <<pages, entityType, relations, outdated>>
      /\ job = "refresh" /\ todo = {} /\ buf = {} /\ job' = "idle" /\ todo' = {}
      /\ current' = IF clean THEN current \cup {"categories"} ELSE current
  BY DEF RefreshEnd, Finish, Start
<1>2. CASE ~clean
  BY <1>1, <1>2, EndKeepsInv
<1>3. CASE clean
  <2>1. \A t \in Rows : categories[t] = blob[t].cats
    BY <1>1, <1>3 DEF GraphInv, RefreshInv
  <2>2. PlaceInv'
    BY <1>1, <1>3 DEF GraphInv, PlaceInv
  <2>3. RefreshInv'
    BY <1>1, <2>1, PagesAreSame DEF RefreshInv, pages
  <2>4. ExtractInv'
    BY <1>1, <1>3, PagesAreSame DEF GraphInv, ExtractInv, ExtractJobs, Rows
  <2>5. NothingElse'
    BY <1>1, PagesAreSame, KeptStays DEF GraphInv, NothingElse, ExtractJobs
  <2>6. \A t \in Rows : ClassOf(t)' = ClassOf(t)
    BY <1>1, ClassesAreSame DEF pages
  <2>7. ClassInv'
    BY <1>1, <1>3, <2>6, PagesAreSame DEF GraphInv, ClassInv
  <2> QED BY <2>2, <2>3, <2>4, <2>5, <2>7 DEF GraphInv
<1> QED BY <1>2, <1>3

-------------------------------------------------------------------------------
(* extract_relations.                                                      *)

LEMMA ExtractStartKeepsInv == ASSUME GraphInv, ExtractStart PROVE GraphInv'
<1>1. /\ UNCHANGED <<pages, entityType, relations, current, outdated>>
      /\ job' = "redirects" /\ todo' = {} /\ buf' = SameAs
  BY DEF ExtractStart, Start
<1>2. PlaceInv'
  BY <1>1, OthersSay DEF GraphInv, PlaceInv
<1>3. \A r \in buf' : Kept(r)'
  <2>1. \A r \in SameAs : Kept(r)
    BY DEF Kept, Said
  <2> QED BY <1>1, <2>1, PagesAreSame, KeptStays
<1> QED BY <1>1, <1>2, <1>3, ReadKeepsInv DEF ExtractJobs

LEMMA ReadTitlesKeepsInv == ASSUME GraphInv, ReadTitles PROVE GraphInv'
<1>1. /\ UNCHANGED <<pages, entityType, relations, current, skip, outdated, clean>>
      /\ job = "titles" /\ job' = "categories" /\ todo' = {}
      /\ buf' = TitleAndCategories(categories)
  BY DEF ReadTitles, Start, history
<1>2. PlaceInv'
  BY <1>1, OthersSay DEF GraphInv, PlaceInv
<1>3. \A r \in buf' : Kept(r)'
  <2>1. \A r \in TitleAndCategories(categories) : Kept(r)
    BY DEF Kept, Said
  <2> QED BY <1>1, <2>1, PagesAreSame, KeptStays
<1>4. clean => SameAs \subseteq relations
  BY <1>1 DEF GraphInv, ExtractInv, Extracted, PlaceInv, ExtractJobs
<1> QED BY <1>1, <1>2, <1>3, <1>4, ReadKeepsInv DEF ExtractJobs

LEMMA ReadBlobsKeepsInv == ASSUME GraphInv, ReadBlobs PROVE GraphInv'
<1>1. /\ UNCHANGED <<pages, entityType, relations, current, skip, outdated, clean>>
      /\ job = "boxes" /\ job' = "infobox" /\ todo' = Rows /\ buf' = {}
  BY DEF ReadBlobs, Start, history
<1>2. PlaceInv'
  BY <1>1 DEF GraphInv, PlaceInv, Rows
<1>3. clean => SameAs \subseteq relations /\ TitleAndCategories(categories) \subseteq relations
  BY <1>1 DEF GraphInv, ExtractInv, Extracted, PlaceInv, ExtractJobs
<1> QED BY <1>1, <1>2, <1>3, ReadKeepsInv DEF ExtractJobs

LEMMA ReadInfoboxKeepsInv ==
  ASSUME GraphInv, NEW t \in Title, ReadInfobox(t) PROVE GraphInv'
<1>1. /\ UNCHANGED <<pages, entityType, relations, current, skip, clean, job>>
      /\ job = "infobox" /\ t \in todo /\ todo' = todo \ {t}
      /\ buf' = buf \cup Infobox(t)
      /\ outdated' = outdated \cup (IF t \in Rows THEN {} ELSE {<<t, "infobox">>})
  BY DEF ReadInfobox
<1>2. PlaceInv'
  BY <1>1 DEF GraphInv, PlaceInv
<1>3. "infobox" \in current => buf' \subseteq relations /\ todo' \subseteq Rows
  BY <1>1 DEF GraphInv, ExtractInv
<1>4. ASSUME clean
      PROVE  /\ SameAs \subseteq relations \cup buf'
             /\ TitleAndCategories(categories) \subseteq relations \cup buf'
             /\ \A v \in Rows \ todo' : Infobox(v) \subseteq relations \cup buf'
  BY <1>1, <1>4 DEF GraphInv, ExtractInv, Extracted, ExtractJobs
<1>5. ASSUME NEW r \in buf' PROVE Kept(r)'
  <2>1. CASE r \in buf
    <3>1. Kept(r)
      BY <1>1, <2>1 DEF GraphInv, NothingElse, ExtractJobs
    <3> QED BY <1>1, <3>1, PagesAreSame, KeptStays
  <2>2. CASE r \in Infobox(t) /\ t \in Rows
    <3>1. Kept(r)
      BY <2>2 DEF Kept, Said
    <3> QED BY <1>1, <3>1, PagesAreSame, KeptStays
  <2>3. CASE r \in Infobox(t) /\ t \notin Rows
    BY <1>1, <2>3, InfoboxSays DEF Kept
  <2> QED BY <1>1, <1>5, <2>1, <2>2, <2>3
<1> QED BY <1>1, <1>2, <1>3, <1>4, <1>5, ReadKeepsInv DEF ExtractJobs

\* A row that cannot be read ends what the script could promise.
LEMMA UnreadableKeepsInv ==
  ASSUME GraphInv, NEW t \in Title, Unreadable(t) PROVE GraphInv'
<1>1. /\ UNCHANGED <<pages, entityType, relations, current, skip, outdated, job, buf, snap>>
      /\ job \in {"refresh", "infobox"} /\ todo' = todo \ {t} /\ clean' = FALSE
      /\ UNCHANGED <<blob, categories>>
  BY DEF Unreadable, pages
<1>2. PlaceInv'
  BY <1>1 DEF GraphInv, PlaceInv
<1>3. ASSUME job = "refresh", Undisturbed'
      PROVE  (\A u \in buf' : IsUpdate(u)') /\ \A v \in todo' : snap'[v] = categories'[v]
  BY <1>1, <1>3 DEF GraphInv, RefreshInv, IsUpdate, Undisturbed
<1>4. "infobox" \in current /\ job = "infobox" => buf \subseteq relations /\ todo' \subseteq Rows
  BY <1>1 DEF GraphInv, ExtractInv
<1>5. job \in ExtractJobs => \A r \in buf : Kept(r)'
  BY <1>1, PagesAreSame, KeptStays DEF GraphInv, NothingElse
<1> QED BY <1>1, <1>2, <1>3, <1>4, <1>5, ReadKeepsInv

\* A script writes relations it holds: what was in the table or held still is,
\* and nothing else comes in.
LEMMA WriteKeepsInv ==
  ASSUME GraphInv, UNCHANGED <<pages, entityType, current, clean, outdated>>, PlaceInv',
         job \in {"redirects", "categories", "infobox"}, job' \in ExtractJobs,
         relations \subseteq relations', relations' \cup buf' = relations \cup buf,
         job' \in {"categories", "boxes", "infobox", "end"} =>
           job \in {"categories", "boxes", "infobox", "end"},
         job' = "infobox" => job = "infobox" /\ todo' = todo
  PROVE  GraphInv'
<1>1. UNCHANGED <<blob, categories>> /\ Rows \subseteq Title
  BY DEF pages, Rows
<1>2. ASSUME "infobox" \in current
      PROVE  \A r \in relations' : r.source = "infobox" => r \in relations
  BY <1>2 DEF GraphInv, PlaceInv, ExtractInv
<1>3. "infobox" \in current => \A t \in Rows : ClassOf(t)' = ClassOf(t)
  <2> SUFFICES ASSUME "infobox" \in current, NEW t \in Rows PROVE ClassOf(t)' = ClassOf(t)
    OBVIOUS
  <2>1. {r \in relations' : r.source = "infobox"} = {r \in relations : r.source = "infobox"}
    BY <1>2
  <2> QED BY <1>1, <2>1, ClassesAreSame
<1>4. /\ Rows' = Rows /\ Said' = Said /\ SameAs' = SameAs
      /\ TitleAndCategories(categories)' = TitleAndCategories(categories)
      /\ \A t \in Title : Infobox(t)' = Infobox(t)
  BY PagesAreSame
<1>5. RefreshInv'
  BY <1>1, <1>4 DEF GraphInv, RefreshInv, ExtractJobs
<1>6. ExtractInv'
  BY <1>1, <1>4 DEF GraphInv, ExtractInv, Extracted, ExtractJobs
<1>7. NothingElse'
  <2>1. \A r \in relations \cup buf : Kept(r)
    BY DEF GraphInv, NothingElse, ExtractJobs
  <2>2. \A r \in relations \cup buf : Kept(r)'
    BY <1>4, <2>1, KeptStays
  <2> QED BY <2>2 DEF NothingElse
<1>8. ClassInv'
  BY <1>3, <1>4 DEF GraphInv, PlaceInv, ClassInv, ExtractJobs
<1> QED BY <1>5, <1>6, <1>7, <1>8 DEF GraphInv

LEMMA WritesKeepInv ==
  ASSUME GraphInv, WriteRedirects \/ WriteTitles \/ WriteCategories \/ WriteInfobox
  PROVE  GraphInv'
<1> USE DEF Inserted, Start, history, ExtractJobs
<1>1. CASE WriteRedirects
  <2>1. PlaceInv'
    BY <1>1 DEF WriteRedirects, GraphInv, PlaceInv
  <2> QED BY <1>1, <2>1, WriteKeepsInv DEF WriteRedirects
<1>2. CASE WriteTitles
  <2>1. PlaceInv'
    BY <1>2 DEF WriteTitles, GraphInv, PlaceInv
  <2> QED BY <1>2, <2>1, WriteKeepsInv DEF WriteTitles
<1>3. CASE WriteCategories
  <2>1. PlaceInv'
    BY <1>3 DEF WriteCategories, GraphInv, PlaceInv
  <2> QED BY <1>3, <2>1, WriteKeepsInv DEF WriteCategories
<1>4. CASE WriteInfobox
  <2>1. PlaceInv'
    BY <1>4 DEF WriteInfobox, GraphInv, PlaceInv
  <2> QED BY <1>4, <2>1, WriteKeepsInv DEF WriteInfobox
<1> QED BY <1>1, <1>2, <1>3, <1>4

\* Every row was read, and nothing is held: the table has what is said.
LEMMA ExtractEndKeepsInv == ASSUME GraphInv, ExtractEnd PROVE GraphInv'
<1>1. /\ UNCHANGED <<pages, entityType, relations, outdated>>
      /\ job = "end" \/ (job = "infobox" /\ todo = {} /\ buf = {})
      /\ job' = "idle" /\ todo' = {}
      /\ current' = IF clean THEN current
                      \cup (IF "categories" \in current THEN {"relations"} ELSE {})
                      \cup (IF skip THEN {} ELSE {"infobox"})
                    ELSE current
  BY DEF ExtractEnd, Finish, Start
<1>2. CASE ~clean
  BY <1>1, <1>2, EndKeepsInv
<1>3. CASE clean
  <2>1. buf = {} /\ (~skip => job = "infobox" /\ todo = {})
    BY <1>1 DEF GraphInv, PlaceInv
  <2>2. SameAs \cup TitleAndCategories(categories) \subseteq relations
    BY <1>1, <1>3, <2>1 DEF GraphInv, ExtractInv, Extracted, ExtractJobs
  <2>3. "infobox" \in current' => \A t \in Rows : Infobox(t) \subseteq relations
    BY <1>1, <1>3, <2>1 DEF GraphInv, ExtractInv, Extracted
  <2>4. PlaceInv'
    BY <1>1, <1>3 DEF GraphInv, PlaceInv
  <2>5. "categories" \in current' <=> "categories" \in current
    BY <1>1
  <2>6. RefreshInv'
    BY <1>1, <2>5, PagesAreSame DEF GraphInv, RefreshInv, pages
  <2>7. ExtractInv'
    <3>1. Rows \subseteq Title
      BY DEF Rows
    <3> QED BY <1>1, <2>2, <2>3, <3>1, PagesAreSame DEF ExtractInv, ExtractJobs
  <2>8. NothingElse'
    BY <1>1, PagesAreSame, KeptStays DEF GraphInv, NothingElse, ExtractJobs
  <2>9. \A t \in Rows : ClassOf(t)' = ClassOf(t)
    BY <1>1, ClassesAreSame DEF pages
  <2>10. "classes" \in current' <=> "classes" \in current
    BY <1>1
  <2>11. ClassInv'
    BY <1>1, <2>9, <2>10, PagesAreSame DEF GraphInv, ClassInv
  <2> QED BY <2>4, <2>6, <2>7, <2>8, <2>11 DEF GraphInv
<1> QED BY <1>2, <1>3

-------------------------------------------------------------------------------
(* classify_entities.                                                      *)

LEMMA ClassifyStartKeepsInv == ASSUME GraphInv, ClassifyStart PROVE GraphInv'
<1>1. /\ UNCHANGED <<pages, entityType, relations, current, skip, outdated>>
      /\ job' = "predicates" /\ todo' = {} /\ snap' = [t \in Title |-> PredicatesOf(t)]
  BY DEF ClassifyStart, Start
<1>2. PlaceInv'
  BY <1>1 DEF GraphInv, PlaceInv
<1> QED BY <1>1, <1>2, ReadKeepsInv DEF ExtractJobs

LEMMA ReadCategoriesKeepsInv == ASSUME GraphInv, ReadCategories PROVE GraphInv'
<1>1. /\ UNCHANGED <<pages, entityType, relations, current, skip, outdated, clean>>
      /\ job = "predicates" /\ job' = "classify" /\ todo' = Rows
      /\ snap' = [t \in Title |-> Classify(categories[t], snap[t], t)]
  BY DEF ReadCategories, Start, history
<1>2. PlaceInv'
  BY <1>1 DEF GraphInv, PlaceInv, Rows
<1>3. Ready => \A t \in Rows : snap'[t] = ClassOf(t)
  BY <1>1 DEF GraphInv, ClassInv, ClassOf, Rows
<1> QED BY <1>1, <1>2, <1>3, ReadKeepsInv DEF ExtractJobs

\* The classes were computed from the relations and the categories of now.
LEMMA WriteTypesKeepsInv == ASSUME GraphInv, WriteTypes PROVE GraphInv'
<1>1. /\ UNCHANGED <<pages, relations, outdated>>
      /\ job = "classify" /\ entityType' = [t \in Title |-> Typed(t)]
      /\ job' = "idle" /\ todo' = {}
      /\ current' = IF clean THEN current \cup (IF Ready THEN {"classes"} ELSE {})
                    ELSE current
  BY DEF WriteTypes, Finish, Start, Ready
<1>2. PlaceInv'
  BY <1>1 DEF GraphInv, PlaceInv, Ready
<1>3. Rows \subseteq Title
  BY DEF Rows
<1>4. Ready => \A t \in Rows : entityType'[t] = ClassOf(t)
  BY <1>1, <1>3 DEF GraphInv, ClassInv, Typed
<1>5. \A t \in Rows : ClassOf(t)' = ClassOf(t)
  BY <1>1, ClassesAreSame DEF pages
<1>6. \A c \in {"categories", "relations", "infobox"} : c \in current' <=> c \in current
  BY <1>1
<1>7. RefreshInv'
  BY <1>1, <1>6, PagesAreSame DEF GraphInv, RefreshInv, pages
<1>8. ExtractInv'
  BY <1>1, <1>3, <1>6, PagesAreSame DEF GraphInv, ExtractInv, ExtractJobs
<1>9. NothingElse'
  BY <1>1, PagesAreSame, KeptStays DEF GraphInv, NothingElse, ExtractJobs
<1>10. "classes" \in current' => Ready
  BY <1>1 DEF GraphInv, PlaceInv, Ready
<1>11. ClassInv'
  BY <1>1, <1>4, <1>5, <1>10, PagesAreSame DEF ClassInv
<1> QED BY <1>2, <1>7, <1>8, <1>9, <1>11 DEF GraphInv

-------------------------------------------------------------------------------
LEMMA GraphStep == GraphInv /\ [Next]_vars => GraphInv'
<1> SUFFICES ASSUME GraphInv, [Next]_vars PROVE GraphInv'
  OBVIOUS
<1>1. ASSUME NEW t \in Title, NEW p \in Page(t), Crawl(t, p) PROVE GraphInv'
  BY <1>1, EditKeepsInv DEF Crawl
<1>2. ASSUME NEW t \in Title, Parse(t) \/ Remove(t) PROVE GraphInv'
  BY <1>2, EditKeepsInv DEF Parse, Remove
<1>3. ASSUME NEW a \in Alias, NEW t \in Title, Redirect(a, t) PROVE GraphInv'
  BY <1>3, EditKeepsInv DEF Redirect
<1>4. CASE Stop
  BY <1>4, EndKeepsInv DEF Stop, Start, history
<1>5. ASSUME NEW t \in Title, Unreadable(t) \/ RefreshRead(t) \/ ReadInfobox(t) PROVE GraphInv'
  BY <1>5, UnreadableKeepsInv, RefreshReadKeepsInv, ReadInfoboxKeepsInv
<1>6. CASE RefreshStart \/ RefreshWrite \/ RefreshEnd
  BY <1>6, RefreshStartKeepsInv, RefreshWriteKeepsInv, RefreshEndKeepsInv
<1>7. CASE ExtractStart \/ ReadTitles \/ ReadBlobs \/ ExtractEnd
  BY <1>7, ExtractStartKeepsInv, ReadTitlesKeepsInv, ReadBlobsKeepsInv, ExtractEndKeepsInv
<1>8. CASE WriteRedirects \/ WriteTitles \/ WriteCategories \/ WriteInfobox
  BY <1>8, WritesKeepInv
<1>9. CASE ClassifyStart \/ ReadCategories \/ WriteTypes
  BY <1>9, ClassifyStartKeepsInv, ReadCategoriesKeepsInv, WriteTypesKeepsInv
<1>10. CASE UNCHANGED vars
  <2>1. /\ UNCHANGED pages /\ UNCHANGED <<blob, row, categories, redirects>>
        /\ UNCHANGED <<entityType, relations, job, todo, snap, buf, skip, current, clean, outdated>>
    BY <1>10 DEF vars, pages, script, history
  <2>2. \A t \in Rows : ClassOf(t)' = ClassOf(t)
    BY <2>1, ClassesAreSame
  <2>3. \A t \in Title : PredicatesOf(t)' = PredicatesOf(t)
    BY <2>1, ClassesAreSame
  <2>4. PlaceInv' /\ NothingElse'
    BY <2>1, PagesAreSame, KeptStays DEF GraphInv, PlaceInv, NothingElse
  <2>5. RefreshInv'
    BY <2>1, PagesAreSame DEF GraphInv, RefreshInv, IsUpdate, Undisturbed
  <2>6. ExtractInv'
    <3>1. Rows \subseteq Title
      BY DEF Rows
    <3> QED BY <2>1, <3>1, PagesAreSame DEF GraphInv, ExtractInv, Extracted
  <2>7. ClassInv'
    BY <2>1, <2>2, <2>3, PagesAreSame DEF GraphInv, ClassInv, Ready
  <2> QED BY <2>4, <2>5, <2>6, <2>7 DEF GraphInv
<1> QED BY <1>1, <1>2, <1>3, <1>4, <1>5, <1>6, <1>7, <1>8, <1>9, <1>10 DEF Next

LEMMA GraphHolds == Spec => []GraphInv
BY GraphInit, GraphStep, PTL DEF Spec

-------------------------------------------------------------------------------
(* The theorems.                                                           *)

\* Once extract_relations has followed refresh_categories with nothing in between,
\* the relations of the pages, titles and redirects are in the table; and whatever
\* else is there belongs to a subject that once said more under the same source.
THEOREM RelationsAreSaid == Spec => []RelationsFollowPages
<1>1. GraphInv => RelationsFollowPages
  <2> SUFFICES ASSUME GraphInv PROVE RelationsFollowPages
    OBVIOUS
  <2>1. ASSUME "relations" \in current
        PROVE  SameAs \cup TitleAndCategories(PageCategories) \subseteq relations
    <3>1. \A t \in Rows : categories[t] = blob[t].cats
      BY <2>1 DEF GraphInv, PlaceInv, RefreshInv
    <3>2. \A t \in Rows : PageCategories[t] = blob[t].cats
      BY DEF PageCategories, Rows
    <3>3. TitleAndCategories(PageCategories) = TitleAndCategories(categories)
      BY <3>1, <3>2 DEF TitleAndCategories
    <3> QED BY <2>1, <3>3 DEF GraphInv, ExtractInv
  <2>2. \A r \in relations \ Said : <<r.subject, r.source>> \in outdated
    BY DEF GraphInv, NothingElse, Kept
  <2> QED BY <2>1, <2>2 DEF GraphInv, ExtractInv, RelationsFollowPages
<1> QED BY <1>1, GraphHolds, PTL

\* Once classify_entities has followed too, the class of a document is the one of
\* the categories of its page, though the column held wrong ones before, and of the
\* infobox relations in the table, which are its page's unless it once said more.
THEOREM ClassesAreThePages == Spec => []TypesFollowPages
<1>1. GraphInv => TypesFollowPages
  <2> SUFFICES ASSUME GraphInv, "classes" \in current, NEW t \in Rows
               PROVE  /\ entityType[t] = Classify(blob[t].cats, PredicatesOf(t), t)
                      /\ <<t, "infobox">> \notin outdated =>
                           PredicatesOf(t) = {r.predicate : r \in Infobox(t)}
    BY DEF TypesFollowPages
  <2>1. categories[t] = blob[t].cats
    BY DEF GraphInv, PlaceInv, RefreshInv
  <2>2. entityType[t] = ClassOf(t)
    BY DEF GraphInv, ClassInv
  <2>3. ASSUME <<t, "infobox">> \notin outdated
        PROVE  {r \in relations : r.subject = t /\ r.source = "infobox"} = Infobox(t)
    <3>1. Infobox(t) \subseteq relations
      BY DEF GraphInv, PlaceInv, ExtractInv
    <3>2. ASSUME NEW r \in relations, r.subject = t, r.source = "infobox"
          PROVE  r \in Infobox(t)
      <4>1. r \in Said
        BY <2>3, <3>2 DEF GraphInv, NothingElse, Kept
      <4>2. PICK u \in Rows : r \in Infobox(u)
        BY <3>2, <4>1, OthersSay DEF Said
      <4> QED BY <3>2, <4>2, InfoboxSays
    <3> QED BY <3>1, <3>2, InfoboxSays
  <2> QED BY <2>1, <2>2, <2>3 DEF ClassOf, PredicatesOf
<1> QED BY <1>1, GraphHolds, PTL

\* The first of three that is a class.
LEMMA FirstOfThree ==
  ASSUME NEW a, NEW b, NEW S
  PROVE  FirstOf(<<a, b, "concept">>, S) =
           IF a \in S THEN a ELSE IF b \in S THEN b ELSE
           IF "concept" \in S THEN "concept" ELSE "none"
<1> DEFINE order == <<a, b, "concept">>
           hit == {i \in DOMAIN order : order[i] \in S}
<1>1. DOMAIN order = 1..3 /\ order[1] = a /\ order[2] = b /\ order[3] = "concept"
  OBVIOUS
<1>2. FirstOf(order, S) =
        IF hit = {} THEN "none" ELSE order[CHOOSE i \in hit : \A j \in hit : i <= j]
  BY DEF FirstOf
<1>3. hit \subseteq 1..3 /\ (1 \in hit <=> a \in S) /\ (2 \in hit <=> b \in S)
      /\ (3 \in hit <=> "concept" \in S)
  BY <1>1
<1> HIDE DEF hit, order
<1>4. CASE a \in S
  <2>1. (CHOOSE i \in hit : \A j \in hit : i <= j) = 1
    <3>1. \A i \in hit : (\A j \in hit : i <= j) <=> i = 1
      BY <1>3, <1>4
    <3> QED BY <1>3, <1>4, <3>1
  <2> QED BY <1>1, <1>2, <1>3, <1>4, <2>1 DEF order
<1>5. CASE a \notin S /\ b \in S
  <2>1. (CHOOSE i \in hit : \A j \in hit : i <= j) = 2
    <3>1. \A i \in hit : (\A j \in hit : i <= j) <=> i = 2
      BY <1>3, <1>5
    <3> QED BY <1>3, <1>5, <3>1
  <2> QED BY <1>1, <1>2, <1>3, <1>5, <2>1 DEF order
<1>6. CASE a \notin S /\ b \notin S /\ "concept" \in S
  <2>1. (CHOOSE i \in hit : \A j \in hit : i <= j) = 3
    <3>1. \A i \in hit : (\A j \in hit : i <= j) <=> i = 3
      BY <1>3, <1>6
    <3> QED BY <1>3, <1>6, <3>1
  <2> QED BY <1>1, <1>2, <1>3, <1>6, <2>1 DEF order
<1>7. CASE a \notin S /\ b \notin S /\ "concept" \notin S
  <2>1. hit = {}
    BY <1>3, <1>7
  <2> QED BY <1>2, <1>7, <2>1 DEF order
<1> QED BY <1>4, <1>5, <1>6, <1>7 DEF order

\* The order of the signals: a place's before a person's, and then the others.
LEMMA SignalsDecide ==
  ASSUME NEW preds
  PROVE  /\ FromPredicates(preds) = "person" <=>
              /\ preds \cap PredSignals["person"] # {}
              /\ preds \cap PredSignals["place"] = {}
         /\ FromPredicates(preds) \in {"place", "person", "organization", "work", "none"}
         /\ FromPredicates(preds) = "none" <=>
              \A c \in DOMAIN PredSignals : preds \cap PredSignals[c] = {}
<1> DEFINE signalled == {c \in DOMAIN PredSignals : PredSignals[c] \cap preds # {}}
           hit == {i \in DOMAIN PredOrder : PredOrder[i] \in signalled}
<1>1. /\ DOMAIN PredOrder = 1..4 /\ PredOrder[1] = "place" /\ PredOrder[2] = "person"
      /\ PredOrder[3] = "organization" /\ PredOrder[4] = "work"
  BY DEF PredOrder
<1>2. DOMAIN PredSignals = {"person", "work", "organization", "place"}
  BY DEF PredSignals
<1>3. /\ signalled \subseteq DOMAIN PredSignals
      /\ \A c \in DOMAIN PredSignals : c \in signalled <=> preds \cap PredSignals[c] # {}
  OBVIOUS
<1>4. FromPredicates(preds) =
        IF hit = {} THEN "none" ELSE PredOrder[CHOOSE i \in hit : \A j \in hit : i <= j]
  BY DEF FromPredicates, FirstOf
<1> HIDE DEF signalled
<1>5. hit \subseteq 1..4 /\ (1 \in hit <=> "place" \in signalled)
      /\ (2 \in hit <=> "person" \in signalled) /\ (3 \in hit <=> "organization" \in signalled)
      /\ (4 \in hit <=> "work" \in signalled)
  BY <1>1
<1> HIDE DEF hit
<1>6. CASE hit = {}
  <2>1. \A c \in DOMAIN PredSignals : c \notin signalled
    BY <1>2, <1>5, <1>6
  <2>2. \A c \in DOMAIN PredSignals : preds \cap PredSignals[c] = {}
    BY <1>3, <2>1
  <2>3. preds \cap PredSignals["person"] = {}
    BY <1>2, <2>2
  <2> QED BY <1>4, <1>6, <2>2, <2>3
<1>7. CASE hit # {}
  <2> DEFINE first == CHOOSE i \in hit : \A j \in hit : i <= j
  <2>0. 1 \in hit \/ 2 \in hit \/ 3 \in hit \/ 4 \in hit
    <3>1. PICK i : i \in hit
      BY <1>7
    <3>2. i \in 1..4
      BY <1>5, <3>1
    <3>3. i = 1 \/ i = 2 \/ i = 3 \/ i = 4
      BY <3>2
    <3> QED BY <3>1, <3>3
  <2>1. \E i \in hit : \A j \in hit : i <= j
    <3>1. CASE 1 \in hit
      BY <1>5, <3>1
    <3>2. CASE 1 \notin hit /\ 2 \in hit
      <4>1. \A j \in hit : 2 <= j
        BY <1>5, <3>2
      <4> QED BY <3>2, <4>1
    <3>3. CASE 1 \notin hit /\ 2 \notin hit /\ 3 \in hit
      <4>1. \A j \in hit : 3 <= j
        BY <1>5, <3>3
      <4> QED BY <3>3, <4>1
    <3>4. CASE 1 \notin hit /\ 2 \notin hit /\ 3 \notin hit
      <4>1. 4 \in hit
        BY <2>0, <3>4
      <4>2. \A j \in hit : 4 <= j
        BY <1>5, <3>4
      <4> QED BY <4>1, <4>2
    <3> QED BY <3>1, <3>2, <3>3, <3>4
  <2>2. first \in hit /\ \A j \in hit : first <= j
    BY <2>1
  <2>3. FromPredicates(preds) = PredOrder[first]
    BY <1>4, <1>7
  <2> HIDE DEF first
  <2>4. first \in 1..4 /\ (first = 2 <=> 2 \in hit /\ 1 \notin hit)
    BY <1>5, <2>2
  <2>5. PredOrder[first] = "person" <=> first = 2
    BY <1>1, <2>4
  <2>6. PredOrder[first] \in {"place", "person", "organization", "work"}
    BY <1>1, <2>4
  <2>7. \E c \in DOMAIN PredSignals : c \in signalled
    <3>1. "place" \in signalled \/ "person" \in signalled
          \/ "organization" \in signalled \/ "work" \in signalled
      BY <1>5, <2>0
    <3> QED BY <1>2, <3>1
  <2>8. ~ \A c \in DOMAIN PredSignals : preds \cap PredSignals[c] = {}
    BY <1>3, <2>7
  <2>9. /\ "person" \in signalled <=> preds \cap PredSignals["person"] # {}
        /\ "place" \in signalled <=> preds \cap PredSignals["place"] # {}
    BY <1>2, <1>3
  <2> QED BY <1>5, <2>3, <2>4, <2>5, <2>6, <2>8, <2>9
<1> QED BY <1>6, <1>7

\* What the rules come to for a person.
LEMMA PersonIsClass ==
  ASSUME NEW t
  PROVE  Classify(blob[t].cats, PredicatesOf(t), t) = "person" <=> IsPerson(t)
<1> DEFINE p == FromPredicates(PredicatesOf(t))
           c == FromCategories(blob[t].cats, t)
           S == IF t \in Calendar THEN {"concept"} ELSE Classes
<1>1. Classify(blob[t].cats, PredicatesOf(t), t) = FirstOf(<<p, c, "concept">>, S)
  BY DEF Classify
<1>2. IsPerson(t) <=> t \notin Calendar /\ (p = "person" \/ (p = "none" /\ c = "person"))
  BY SignalsDecide DEF IsPerson
<1>3. p \in {"place", "person", "organization", "work", "none"}
  BY SignalsDecide
<1> HIDE DEF p, c
<1>4. FirstOf(<<p, c, "concept">>, S) = IF p \in S THEN p ELSE IF c \in S THEN c ELSE "concept"
  BY FirstOfThree DEF Classes
<1>5. CASE t \in Calendar
  BY <1>1, <1>2, <1>4, <1>5
<1>6. CASE t \notin Calendar
  <2>1. S = Classes
    BY <1>6
  <2> QED BY <1>1, <1>2, <1>3, <1>4, <1>6, <2>1 DEF Classes
<1> QED BY <1>5, <1>6

\* Then a search shows no row of a person for a page whose infobox and categories
\* are not one's, and up to the limit of an answer all of one whose are.
THEOREM PersonFactsAreShown == Spec => []PersonFactsAreServed
<1>1. GraphInv => PersonFactsAreServed
  <2> SUFFICES ASSUME GraphInv, "classes" \in current, NEW titles \in SUBSET Rows,
                      NEW F \in FactsFor(titles)
               PROVE  /\ \A r \in F : r.predicate \in PersonOnly => IsPerson(r.subject)
                      /\ Cardinality(F) < FactLimit =>
                           \A t \in titles : IsPerson(t) =>
                             {r \in relations : r.subject = t /\ r.source = "infobox"} \subseteq F
    BY DEF PersonFactsAreServed
  <2>1. \A t \in titles : entityType[t] = "person" <=> IsPerson(t)
    <3>1. \A t \in Rows : entityType[t] = Classify(blob[t].cats, PredicatesOf(t), t)
      BY DEF GraphInv, PlaceInv, RefreshInv, ClassInv, ClassOf
    <3> QED BY <3>1, PersonIsClass
  <2>2. F \subseteq Fit(titles) /\ (F = Fit(titles) \/ Cardinality(F) = FactLimit)
    BY DEF FactsFor, Cut
  <2>3. \A r \in F : r.predicate \in PersonOnly => IsPerson(r.subject)
    BY <2>1, <2>2 DEF Fit
  <2>4. ASSUME Cardinality(F) < FactLimit, NEW t \in titles, IsPerson(t)
        PROVE  {r \in relations : r.subject = t /\ r.source = "infobox"} \subseteq F
    <3>1. F = Fit(titles)
      BY <2>2, <2>4, KGAssumption
    <3> QED BY <2>1, <2>4, <3>1 DEF Fit
  <2> QED BY <2>3, <2>4
<1> QED BY <1>1, GraphHolds, PTL
===============================================================================
