----------------------------- MODULE EntityTypes -----------------------------
(***************************************************************************)
(* What one page says about the thing it describes.                        *)
(*                                                                         *)
(*   src/namuwiki/relations.py      relations from the infobox, the title  *)
(*   src/namuwiki/entity_types.py   the class of the document              *)
(*                                                                         *)
(* A page is a record: its categories in order, and the label-value rows   *)
(* of its tables in order.  A category is a record of what the classifier  *)
(* sees of its name: `heads`, the classes its last word signals; `names`,  *)
(* the titles it contains; `prefixed`, that it still begins with "분류:";  *)
(* `noise`, that extract_relations does not take it for a category.        *)
(* The Korean labels are translated.                                       *)
(***************************************************************************)
EXTENDS Integers, Sequences, FiniteSets

CONSTANTS Calendar,       \* titles of years and days
          ParentOf,       \* a subpage's title -> the title before its last /
          NotAnObject,    \* _NON_ARTICLE and _OBJECT_STOPLIST
          OwnCategories,  \* _OWN_CATEGORIES, 6 in the code
          InfoboxLimit    \* relations of one infobox, 60 in the code

ASSUME BoundAssumption == OwnCategories \in Nat /\ InfoboxLimit \in Nat \ {0}

Classes == {"person", "place", "organization", "work", "event", "creature", "concept"}

(***************************************************************************)
(* Relations.                                                              *)
(***************************************************************************)
\* The labels of relations.py that entity_types.py or api.py tell apart, and two
\* that they do not, for all the others.
PredicateWhitelist ==
  {"nationality", "birth", "death", "occupation", "education", "family", "spouse",
   "child", "parent", "sibling", "director", "producer", "distributor", "genre",
   "original", "starring", "cast", "headquarters", "founder", "chief", "chairman",
   "capital", "location", "polity", "currency", "parent body", "subsidiary"}

Relation(s, p, o, src) == [subject |-> s, predicate |-> p, object |-> o, source |-> src]

Targets(row) == row.links \ NotAnObject

\* The relations of the rows `rows` of the table `box`: the linked pages, or
\* the text where no link is left.
RowsSay(title, box, rows) ==
  UNION {{Relation(title, box[i].label, o, "infobox")
            : o \in IF Targets(box[i]) # {} THEN Targets(box[i]) ELSE {box[i].text}}
           : i \in rows}

\* The first row of a label counts, even when its value is empty, and the
\* rows below it with the same label never do.
FirstRows(box) ==
  {i \in DOMAIN box : /\ box[i].label \in PredicateWhitelist
                      /\ \A j \in 1..(i - 1) : box[j].label # box[i].label
                      /\ box[i].text # ""}

FromInfobox(title, box) ==
  RowsSay(title, box,
    {i \in FirstRows(box) :
       Cardinality(RowsSay(title, box, {j \in FirstRows(box) : j < i})) < InfoboxLimit})

FromTitle(title) ==
  IF title \in DOMAIN ParentOf
  THEN {Relation(title, "PART_OF", ParentOf[title], "title")} ELSE {}

(***************************************************************************)
(* Classes.                                                                *)
(***************************************************************************)
PredSignals ==
  [person |-> {"birth", "death", "education", "spouse", "parent", "child", "sibling",
               "nationality", "occupation"},
   work   |-> {"producer", "distributor", "starring", "cast", "original"},
   organization |-> {"founder", "headquarters", "chairman", "chief", "parent body",
                     "subsidiary"},
   place  |-> {"capital", "location", "polity", "currency"}]

PredOrder == <<"place", "person", "organization", "work">>
CatOrder  == <<"event", "creature", "place", "organization", "work", "person">>

\* The first of `order` that is in S, or "none".
FirstOf(order, S) ==
  LET hit == {i \in DOMAIN order : order[i] \in S}
  IN  IF hit = {} THEN "none" ELSE order[CHOOSE i \in hit : \A j \in hit : i <= j]

FromPredicates(preds) ==
  FirstOf(PredOrder, {c \in DOMAIN PredSignals : PredSignals[c] \cap preds # {}})

\* A category that contains the title lists things related to the page.
SaysWhatItIs(cat, title) == ~cat.prefixed /\ title \notin cat.names

Score(cats, title, c) ==
  Cardinality({i \in DOMAIN cats : /\ i <= OwnCategories
                                   /\ SaysWhatItIs(cats[i], title)
                                   /\ c \in cats[i].heads})

FromCategories(cats, title) ==
  FirstOf(CatOrder, {c \in Classes : /\ Score(cats, title, c) > 0
                                     /\ \A e \in Classes : Score(cats, title, e)
                                                             <= Score(cats, title, c)})

\* The infobox decides before the categories, and neither about a calendar page.
Classify(cats, preds, title) ==
  FirstOf(<<FromPredicates(preds), FromCategories(cats, title), "concept">>,
          IF title \in Calendar THEN {"concept"} ELSE Classes)
===============================================================================
