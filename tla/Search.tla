------------------------------- MODULE Search -------------------------------
(***************************************************************************)
(* services/api.py, hybrid_search and the endpoint /api/search: one        *)
(* request, whose five queries to Qdrant and PostgreSQL see the database   *)
(* at five moments, while the parser, the embedder and the scripts write.  *)
(*                                                                         *)
(* Qdrant's fusion of the two rankings is external: any order of any of    *)
(* the points that pass the filter.  So is the reranker: any score for any *)
(* text; `Rounded` is round(score, 2).  A document stands for its doc_id   *)
(* and its title.                                                          *)
(***************************************************************************)
EXTENDS Integers, Sequences, FiniteSets, SequencesExt

CONSTANTS Doc, Chunk,
          DocOf,       \* the document of a chunk (payload doc_id)
          InCategory,  \* chunks whose payload has the category
          Score,       \* scores the reranker may give
          Graphs,      \* bound: outlinks before the request
          Ranks,       \* bound: pagerank before the request, 0 for NULL
          Candidates,  \* candidates, 100 by default
          Extra,       \* max(candidates // 2, 20)
          TopK,        \* top_k
          SeedPoints,  \* points whose documents are seeds, 10 in the code
          MaxNear,     \* neighbours, at most 40 in the code
          MaxChanges   \* bound: writes of the other programs

ASSUME SearchAssumption ==
  /\ IsFiniteSet(Doc) /\ IsFiniteSet(Chunk)
  /\ DocOf \in [Chunk -> Doc] /\ InCategory \subseteq Chunk /\ Score \subseteq Nat
  /\ Ranks \subseteq [Doc -> Nat]
  /\ {Candidates, Extra, TopK, SeedPoints, MaxNear, MaxChanges} \subseteq Nat

VARIABLES
  rows,       \* documents with a row
  outlinks,   \* documents.outlinks
  pagerank,   \* documents.pagerank, 0 for NULL
  typed,      \* documents whose entity_type is the one asked for
  points,     \* chunks with a point in Qdrant
  score,      \* what the reranker thinks of each candidate
  request,    \* the record of parameters
  pc,
  res,        \* the candidates
  base,       \* history: the candidates of the first search
  near,       \* neighbor_doc_ids
  ranked,     \* the reranker's answer
  meta,       \* pagerank as read, 0 where the row is missing
  hits,
  changes

database == <<rows, outlinks, pagerank, typed, points>>
vars == <<database, score, request, pc, res, base, near, ranked, meta, hits, changes>>

Requests == [category : BOOLEAN, expand : BOOLEAN, entityType : BOOLEAN]

Init ==
  /\ rows = Doc /\ points = Chunk
  /\ outlinks \in Graphs /\ pagerank \in Ranks
  /\ typed = {DocOf[c] : c \in InCategory}
  /\ score = [c \in {} |-> 0]
  /\ request \in Requests
  /\ pc = "search" /\ res = <<>> /\ base = <<>> /\ near = {} /\ ranked = <<>>
  /\ meta = [d \in Doc |-> 0] /\ hits = <<>> /\ changes = 0

-------------------------------------------------------------------------------
(* The other programs.                                                     *)

Change == /\ changes < MaxChanges /\ changes' = changes + 1 /\ pc # "done"
          /\ UNCHANGED <<score, request, pc, res, base, near, ranked, meta, hits>>

\* The parser deletes a document, and the embedder its points later.
DropRow(d)   == /\ Change /\ d \in rows /\ rows' = rows \ {d}
                /\ UNCHANGED <<outlinks, pagerank, typed, points>>
DropPoint(c) == /\ Change /\ c \in points /\ points' = points \ {c}
                /\ UNCHANGED <<rows, outlinks, pagerank, typed>>

\* The parser stores a new version of it.
Relink(d, links) == /\ Change /\ d \in rows /\ outlinks' = [outlinks EXCEPT ![d] = links]
                    /\ UNCHANGED <<rows, pagerank, typed, points>>

\* pagerank.py, classify_entities.py.
Rank(d, v)   == /\ Change /\ d \in rows /\ pagerank' = [pagerank EXCEPT ![d] = v]
                /\ UNCHANGED <<rows, outlinks, typed, points>>
Retype(d)    == /\ Change /\ d \in rows
                /\ typed' = (typed \ {d}) \cup ({d} \ typed)
                /\ UNCHANGED <<rows, outlinks, pagerank, points>>

-------------------------------------------------------------------------------
(* The request.                                                            *)

Min2(a, b) == IF a < b THEN a ELSE b

\* _search_points: `limit` of the points that pass the filter, or all of them, to
\* come in any order.
Answers(filter, limit) ==
  {T \in SUBSET filter : Cardinality(T) = Min2(limit, Cardinality(filter))}

\* The filter on payload categories.
Filtered == IF request.category THEN points \cap InCategory ELSE points

Retrieve ==
  /\ pc = "search"
  /\ res' \in UNION {SetToSeqs(S) : S \in Answers(Filtered, Candidates)}
  /\ base' = res'
  /\ pc' = CASE res' = <<>>                      -> "done"
             [] res' # <<>> /\ request.expand    -> "near"
             [] res' # <<>> /\ ~request.expand   -> "rank"
  /\ UNCHANGED <<database, score, request, near, ranked, meta, hits, changes>>

Seeds == {DocOf[res[i]] : i \in 1..Min2(SeedPoints, Len(res))}

\* Documents that a seed links to and that link to some seed, maybe another.
\* Titles are those of seeds that have a row.
Neighbours(seeds) ==
  LET titles == seeds \cap rows
  IN  {d \in rows \ seeds : /\ \E s \in titles : d \in outlinks[s]
                            /\ outlinks[d] \cap titles # {}}

\* How many seeds link to d: with too many neighbours, the most linked.
Shared(d) == Cardinality({s \in Seeds \cap rows : d \in outlinks[s]})

FindNeighbours ==
  /\ pc = "near"
  /\ near' \in {S \in SUBSET Neighbours(Seeds) :
                  /\ Cardinality(S) = Min2(MaxNear, Cardinality(Neighbours(Seeds)))
                  /\ \A d \in S, e \in Neighbours(Seeds) \ S : Shared(d) >= Shared(e)}
  /\ pc' = IF near' = {} THEN "rank" ELSE "extra"
  /\ UNCHANGED <<database, score, request, res, base, ranked, meta, hits, changes>>

\* Mutant: points that were found already come again.
MutantUnseen(extra) == extra

Unseen(extra) == extra \ ToSet(res)

\* The second search filters by document alone, not by category.
Expand ==
  /\ pc = "extra"
  /\ \E extra \in Answers({c \in points : DocOf[c] \in near}, Extra) :
       \E s \in SetToSeqs(Unseen(extra)) : res' = res \o s
  /\ pc' = "rank"
  /\ UNCHANGED <<database, score, request, base, near, ranked, meta, hits, changes>>

\* The elements of S one after the other, as a set of pairs orders them.
InOrder(S, before) ==
  CHOOSE o \in SetToSeqs(S) : \A i, j \in DOMAIN o : i < j => <<o[i], o[j]>> \in before

\* sorted(..., reverse=True) by a set of pairs; it keeps the order of equals.
Earlier(s, higher) ==
  {p \in (DOMAIN s) \X (DOMAIN s) :
     \/ <<s[p[1]], s[p[2]]>> \in higher
     \/ <<s[p[2]], s[p[1]]>> \notin higher /\ p[1] < p[2]}
Stable(s, higher) ==
  [i \in DOMAIN s |-> s[InOrder(DOMAIN s, Earlier(s, higher))[i]]]

First(s, n) == SubSeq(s, 1, Min2(n, Len(s)))

\* Mutant: the reranker is asked for no more than top_k.
MutantMargin == TopK

\* More than top_k, so that PageRank has equals to choose from.
Margin == TopK * 3

Rerank ==
  /\ pc = "rank"
  /\ score' \in [ToSet(res) -> Score]
  /\ ranked' = First(Stable(res, {p \in ToSet(res) \X ToSet(res) :
                                    score'[p[1]] > score'[p[2]]}), Margin)
  /\ pc' = "meta"
  /\ UNCHANGED <<database, request, res, base, near, meta, hits, changes>>

Rounded(s) == (s + 5) \div 10

\* Mutant: the score is not rounded, PageRank counts first.
MutantSortsBefore(a, b) ==
  \/ meta'[DocOf[a]] > meta'[DocOf[b]]
  \/ meta'[DocOf[a]] = meta'[DocOf[b]] /\ score[a] > score[b]

\* sort_key: PageRank between scores that are the same to two places.
SortsBefore(a, b) ==
  \/ Rounded(score[a]) > Rounded(score[b])
  \/ /\ Rounded(score[a]) = Rounded(score[b])
     /\ meta'[DocOf[a]] > meta'[DocOf[b]]

SortHits ==
  /\ pc = "meta"
  /\ meta' = [d \in Doc |-> IF d \in rows THEN pagerank[d] ELSE 0]
  /\ hits' = First(Stable(ranked, {p \in ToSet(ranked) \X ToSet(ranked) :
                                    SortsBefore(p[1], p[2])}), TopK)
  /\ pc' = IF request.entityType THEN "filter" ELSE "done"
  /\ UNCHANGED <<database, score, request, res, base, near, ranked, changes>>

\* The elements of s that are in S, in the order they have.
Kept(s, S) ==
  LET at    == {i \in DOMAIN s : s[i] \in S}
      order == InOrder(at, {p \in at \X at : p[1] < p[2]})
  IN  [k \in DOMAIN order |-> s[order[k]]]

\* The hits of the type asked for, ranked anew.
FilterType ==
  /\ pc = "filter"
  /\ hits' = Kept(hits, {c \in Chunk : DocOf[c] \in typed \cap rows})
  /\ pc' = "done"
  /\ UNCHANGED <<database, score, request, res, base, near, ranked, meta, changes>>

-------------------------------------------------------------------------------
Next ==
  \/ Retrieve \/ FindNeighbours \/ Expand \/ Rerank \/ SortHits \/ FilterType
  \/ \E d \in Doc : DropRow(d) \/ Retype(d) \/ \E r \in Ranks : Rank(d, r[d])
  \/ \E d \in Doc : \E g \in Graphs : Relink(d, g[d])
  \/ \E c \in Chunk : DropPoint(c)

Spec == Init /\ [][Next]_vars

-------------------------------------------------------------------------------
Positions == DOMAIN hits

\* No candidate, and so no hit, comes twice, though two searches look at a
\* collection that changes, and the expansion only adds to what was found first.
NoHitTwice ==
  /\ IsInjective(res) /\ IsPrefix(base, res)
  /\ IsInjective(hits) /\ ToSet(hits) \subseteq ToSet(ranked)

\* PageRank settles ties and nothing else (api.py:171-174): what the reranker
\* puts clearly above a hit is a hit, and above it; whatever the expansion added.
ScoreDecides ==
  pc = "done" /\ hits # <<>> /\ ~request.entityType =>
    /\ Len(hits) = Min2(TopK, Len(res))
    /\ \A c \in ToSet(res), i \in Positions :
         Rounded(score[c]) > Rounded(score[hits[i]]) => \E j \in 1..(i - 1) : hits[j] = c

\* Among hits that score the same the central document comes first; and of two
\* candidates that score the same it is the one returned, as long as top_k * 3
\* texts are reranked and no more of them compete.
CentralFirst ==
  pc = "done" /\ ~request.entityType /\ Len(res) <= 3 * TopK =>
    \A c \in ToSet(res), i \in Positions :
      /\ hits[i] # c
      /\ Rounded(score[c]) = Rounded(score[hits[i]])
      /\ meta[DocOf[c]] > meta[DocOf[hits[i]]]
      => \E j \in 1..(i - 1) : hits[j] = c

\* `category` narrows the search to a category (README.md:239).
CategoryNarrows == request.category => ToSet(hits) \subseteq InCategory
===============================================================================
