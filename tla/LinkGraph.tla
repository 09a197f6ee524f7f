------------------------------ MODULE LinkGraph ------------------------------
(***************************************************************************)
(* scripts/pagerank.py, build_graph: the link graph in compressed rows.    *)
(*                                                                         *)
(* Three queries read the database while the parser and fold_redirects go  *)
(* on writing, new pages and new versions of pages: the list of documents, *)
(* the redirects, and a streaming scan of the outlinks.  Each sees the     *)
(* database as of its start.  Row i of the result is the part of `indices` *)
(* from indptr[i - 1] + 1 to indptr[i]; it is meant to be the links of     *)
(* docIds[i].                                                              *)
(*                                                                         *)
(* doc_id is a function of the title: one number stands for both, and is   *)
(* where ORDER BY doc_id puts it.                                          *)
(***************************************************************************)
EXTENDS Integers, Sequences, FiniteSets, SequencesExt

CONSTANTS Title,      \* a set of numbers
          Chrome,     \* CHROME_TITLES: linked from every page's frame
          Graphs,     \* bound: what documents.outlinks may be
          MaxEdges,   \* --max-edges
          MaxWrites   \* bound: writes of the other programs

ASSUME TitleAssumption == Title \subseteq Nat /\ IsFiniteSet(Title) /\ Chrome \subseteq Title
ASSUME GraphAssumption == Graphs \subseteq [Title -> SUBSET Title]
ASSUME EdgeAssumption  == MaxEdges \in Nat /\ MaxWrites \in Nat

VARIABLES
  docs,       \* titles with a row in documents
  outlinks,   \* documents.outlinks
  redirects,  \* pairs <<alias, canonical>>, one per alias
  docIds, index,    \* what the first two queries leave behind
  aliasRows,        \* rows of the second query still to enter the index
  scan,             \* rows the cursor has yet to yield
  indptr, indices, seen,
  pc, writes,
  shrunk,     \* history: a document was deleted since the first query
  snapshot    \* history: documents.outlinks as the scan sees it

database == <<docs, outlinks, redirects>>
graph    == <<docIds, index, aliasRows, indptr, indices, seen, snapshot>>
vars     == <<docs, outlinks, redirects, docIds, index, aliasRows, scan, indptr,
              indices, seen, pc, writes, shrunk, snapshot>>

Init ==
  /\ docs \in SUBSET Title \ {{}}
  /\ outlinks \in Graphs
  /\ redirects = {}
  /\ docIds = <<>> /\ index = [t \in {} |-> 0]
  /\ aliasRows = {} /\ scan = <<>>
  /\ indptr = <<>> /\ indices = <<>> /\ seen = 0
  /\ pc = "list" /\ writes = 0 /\ shrunk = FALSE
  /\ snapshot = [t \in Title |-> {}]

-------------------------------------------------------------------------------
(* The other programs.                                                     *)

Write == /\ writes < MaxWrites /\ writes' = writes + 1
         /\ UNCHANGED <<graph, scan, pc>>

\* The parser stores a page, new or in a new version with other links.
AddDoc(t) == /\ Write /\ t \notin docs
             /\ docs' = docs \cup {t} /\ UNCHANGED <<outlinks, redirects, shrunk>>

Rewrite(t) == /\ Write /\ t \in docs
              /\ \E g \in Graphs : outlinks' = [outlinks EXCEPT ![t] = g[t]]
              /\ UNCHANGED <<docs, redirects, shrunk>>

\* The parser, or fold_redirects, deletes a page.
RemoveDoc(t) == /\ Write /\ t \in docs
                /\ docs' = docs \ {t} /\ shrunk' = (pc # "list")
                /\ UNCHANGED <<outlinks, redirects>>

\* The parser finds that a calls itself c.
AddRedirect(a, c) ==
  /\ Write /\ a # c
  /\ redirects' = {r \in redirects : r[1] # a} \cup {<<a, c>>}
  /\ UNCHANGED <<docs, outlinks, shrunk>>

-------------------------------------------------------------------------------
(* build_graph.                                                            *)

\* ORDER BY doc_id.
Ascending(S) == CHOOSE s \in SetToSeqs(S) : \A i, j \in DOMAIN s : i < j => s[i] < s[j]

\* The first query.  Chrome titles do not enter the index.
ListDocs ==
  /\ pc = "list"
  /\ docIds' = Ascending(docs)
  /\ index' = [t \in docs \ Chrome |-> CHOOSE i \in 1..Len(docIds') : docIds'[i] = t]
  /\ pc' = IF docs = {} THEN "failed" ELSE "alias"
  /\ UNCHANGED <<database, aliasRows, scan, indptr, indices, seen, writes, shrunk, snapshot>>

ReadRedirects ==
  /\ pc = "alias"
  /\ aliasRows' = redirects
  /\ pc' = "resolve"
  /\ UNCHANGED <<database, docIds, index, scan, indptr, indices, seen, writes, shrunk, snapshot>>

\* The rows come in no order.  An alias enters if its canonical title is in
\* the index by then and itself is not.
MutantEnters(r) == r[2] \in DOMAIN index
Enters(r) == r[2] \in DOMAIN index /\ r[1] \notin DOMAIN index

ResolveAlias(r) ==
  /\ pc = "resolve" /\ r \in aliasRows
  /\ aliasRows' = aliasRows \ {r}
  /\ index' = IF ~Enters(r) THEN index
              ELSE [t \in DOMAIN index \cup {r[1]} |->
                      IF t = r[1] THEN index[r[2]] ELSE index[t]]
  /\ UNCHANGED <<database, docIds, scan, indptr, indices, seen, pc, writes, shrunk, snapshot>>

OpenScan ==
  /\ pc = "resolve" /\ aliasRows = {}
  /\ scan' = [i \in 1..Cardinality(docs) |->
                [doc |-> Ascending(docs)[i], links |-> outlinks[Ascending(docs)[i]]]]
  /\ indptr' = [i \in 0..Len(docIds) |-> 0]
  /\ snapshot' = outlinks
  /\ pc' = "scan"
  /\ UNCHANGED <<database, docIds, index, aliasRows, indices, seen, writes, shrunk>>

\* Documents the first query did not list are left to the next run.
IsListed(doc) == \E i \in 1..Len(docIds) : docIds[i] = doc

SkipRow ==
  /\ pc = "scan" /\ scan # <<>> /\ ~IsListed(Head(scan).doc)
  /\ scan' = Tail(scan)
  /\ UNCHANGED <<database, graph, pc, writes, shrunk>>

Known(links) == SetToSeq({t \in links : t \in DOMAIN index})
Hits(links)  == [i \in DOMAIN Known(links) |-> index[Known(links)[i]]]

\* The next row of the result, whichever document it came from.
ScanRow ==
  /\ pc = "scan" /\ scan # <<>> /\ IsListed(Head(scan).doc)
  /\ indices' = indices \o Hits(Head(scan).links)
  /\ IF Len(indices') > MaxEdges
       THEN pc' = "failed" /\ UNCHANGED <<scan, seen, indptr>>
       ELSE /\ scan' = Tail(scan)
            /\ seen' = seen + 1
            /\ indptr' = [indptr EXCEPT ![seen + 1] = Len(indices')]
            /\ UNCHANGED pc
  /\ UNCHANGED <<database, docIds, index, aliasRows, writes, shrunk, snapshot>>

\* Rows of documents that disappeared: close the array.
MutantClosed == indptr
Closed == [i \in DOMAIN indptr |-> IF i > seen THEN Len(indices) ELSE indptr[i]]

CloseRows ==
  /\ pc = "scan" /\ scan = <<>>
  /\ indptr' = Closed
  /\ pc' = "done"
  /\ UNCHANGED <<database, docIds, index, aliasRows, scan, indices, seen, writes, shrunk, snapshot>>

-------------------------------------------------------------------------------
(* The specifications.                                                     *)

Resolve == \E a, c \in Title : ResolveAlias(<<a, c>>)
Build   == \/ ListDocs \/ ReadRedirects \/ Resolve \/ OpenScan \/ SkipRow \/ ScanRow
           \/ CloseRows

Grow == \E t \in Title : AddDoc(t) \/ Rewrite(t) \/ \E c \in Title : AddRedirect(t, c)

Spec == Init /\ [][Build \/ Grow \/ \E t \in Title : RemoveDoc(t)]_vars

-------------------------------------------------------------------------------
(* Properties.                                                             *)

Row(i) == {indices[k] : k \in (indptr[i - 1] + 1)..indptr[i]}
TargetsOf(links) == {index[t] : t \in links \cap DOMAIN index}

\* Whatever the others write between the three queries, the result is a closed
\* CSR array; and row i holds the links docIds[i] had when the scan began, all of
\* them that lead to a document or an alias of one, although documents and
\* redirects are added and documents rewritten, during the scan too.  (A version
\* stored after the scan began is left to the next run, and so are documents and
\* redirects added after they were read.  And if a document is deleted, its row is
\* not skipped: rows are counted, not placed, and every later row is stored one
\* place early.)
RowsComplete ==
  pc = "done" =>
    /\ indptr[0] = 0 /\ indptr[Len(docIds)] = Len(indices)
    /\ \A i \in 1..Len(docIds) :
         /\ indptr[i - 1] =< indptr[i]
         /\ ~shrunk => Row(i) = TargetsOf(snapshot[docIds[i]])

\* A listed document resolves to itself, in whatever order the redirects come:
\* an alias that has a document of its own is not led to the canonical one.
\* (A chrome title is left out here, because a redirect may bring it back in.)
DocsAreThemselves ==
  pc = "done" => \A i \in 1..Len(docIds) :
    docIds[i] \in DOMAIN index /\ docIds[i] \notin Chrome => index[docIds[i]] = i
===============================================================================
