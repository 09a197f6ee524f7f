------------------------------- MODULE Ranking -------------------------------
(***************************************************************************)
(* Who decides crawl_state.priority, the lower the sooner.                 *)
(*                                                                         *)
(* pagerank.py writes scores for the graph of module LinkGraph and then    *)
(* ranks the pages it has; prioritize_frontier.py puts every row in a tier *)
(* by its links; the frontier puts what the sidebar reports at Edited, and *)
(* the crawler adds rows.  Every statement commits at once, so those of    *)
(* the two scripts and of the services interleave.                         *)
(*                                                                         *)
(* The power iteration is numeric and left out: the number of links into a *)
(* row stands for its score, 0 for NULL.                                   *)
(***************************************************************************)
EXTENDS LinkGraph

CONSTANTS Tiers,      \* TIERS, pairs of links needed and priority, in any order
          Floor,      \* FLOOR
          Edited,     \* the priority of what the sidebar reports (10)
          Found,      \* of what the crawler finds (200)
          Priorities  \* what crawl_state.priority may be at first; 0 for no row

ASSUME TierAssumption ==
  /\ Tiers \subseteq (Nat \ {0}) \X Nat
  /\ IsFiniteSet(Tiers)
  /\ \A a, b \in Tiers : a # b => a[1] # b[1]
  /\ {Edited, Floor, Found} \subseteq Nat \ {0}
  /\ Edited < Floor /\ Edited < Found /\ \A a \in Tiers : Edited < a[2]
  /\ Edited < 20  \* the priority of the first quarter
  /\ Priorities \subseteq [Title -> Nat]

VARIABLES
  priority,
  pagerank,   \* documents.pagerank
  stage,      \* what pagerank.py has written: "none", "scores", "cleared", "ranked"
  indeg,      \* _indeg, once there is one
  todo,       \* tiers prioritize_frontier has still to apply
  tier,       \* what it does next: "count", "tiers", "floor", "end"
  kept        \* history: rows whose priority nobody else wrote since it counted

links    == <<docs, outlinks, redirects, docIds, index, aliasRows, scan, indptr, indices,
              seen, pc, shrunk, snapshot>>
ranks    == <<priority, pagerank, stage>>
frontier == <<indeg, todo, tier, kept>>
rankVars == <<vars, ranks, frontier>>

RankInit ==
  /\ Init
  /\ priority \in Priorities
  /\ pagerank = [t \in Title |-> 0] /\ stage = "none"
  /\ indeg = [t \in Title |-> 0] /\ todo = {} /\ tier = "count" /\ kept = {}

HasRow(t) == priority[t] # 0

-------------------------------------------------------------------------------
(* The services.                                                           *)

\* mark_changed: LEAST(priority, 10), or a new row.
Report(t) ==
  /\ Write /\ UNCHANGED <<docs, outlinks, redirects, shrunk>>
  /\ priority' = [priority EXCEPT ![t] = IF HasRow(t) /\ @ < Edited THEN @ ELSE Edited]
  /\ kept' = kept \ {t}
  /\ UNCHANGED <<pagerank, stage, indeg, todo, tier>>

\* The crawler's link harvest: a new row, or none.
Discover(t) ==
  /\ Write /\ UNCHANGED <<docs, outlinks, redirects, shrunk>>
  /\ ~HasRow(t)
  /\ priority' = [priority EXCEPT ![t] = Found]
  /\ UNCHANGED <<pagerank, stage, frontier>>

-------------------------------------------------------------------------------
(* pagerank.py, main.                                                      *)

Score(i) == 1 + Cardinality({k \in DOMAIN indices : indices[k] = i})

\* "A graph without edges" ends the script.
WriteScores ==
  /\ pc = "done" /\ indices # <<>> /\ stage = "none"
  /\ pagerank' = [t \in Title |->
       IF t \in docs /\ IsListed(t)
         THEN Score(CHOOSE i \in DOMAIN docIds : docIds[i] = t) ELSE pagerank[t]]
  /\ stage' = "scores"
  /\ UNCHANGED <<vars, priority, frontier>>

ClearChrome ==
  /\ stage = "scores"
  /\ pagerank' = [t \in Title |-> IF t \in Chrome THEN 0 ELSE pagerank[t]]
  /\ stage' = "cleared"
  /\ UNCHANGED <<vars, priority, frontier>>

Ranked == {t \in docs : pagerank[t] # 0}

\* ntile(4): the quarter that the k-th of n rows falls in, the first n % 4
\* quarters one row larger.
MutantQuarter(k, n) == 1 + ((n - k) * 4) \div n
Quarter(k, n) ==
  LET large == (n % 4) * (n \div 4 + 1)
  IN  IF k =< large THEN 1 + (k - 1) \div (n \div 4 + 1)
      ELSE 1 + (n % 4) + (k - large - 1) \div (n \div 4)

\* Rows of equal score come in any order.
RankRows ==
  /\ stage = "cleared"
  /\ \E order \in {o \in SetToSeqs(Ranked) :
                     \A i, j \in DOMAIN o : i < j => pagerank[o[i]] >= pagerank[o[j]]} :
       priority' = [t \in Title |->
         IF HasRow(t) /\ t \in Ranked /\ priority[t] > Edited
           THEN 20 * Quarter(CHOOSE i \in DOMAIN order : order[i] = t, Len(order))
           ELSE priority[t]]
  /\ kept' = kept \ Ranked
  /\ stage' = "ranked"
  /\ UNCHANGED <<vars, pagerank, indeg, todo, tier>>

-------------------------------------------------------------------------------
(* prioritize_frontier.py.  It may start before or after any of these; once *)
(* the graph is built is enough, for building it writes none of this.       *)

CountLinks ==
  /\ pc = "done" /\ tier = "count"
  /\ indeg' = [t \in Title |-> Cardinality({d \in docs : t \in outlinks[d]})]
  /\ kept' = {t \in Title : priority[t] > Edited}
  /\ todo' = Tiers /\ tier' = "tiers"
  /\ UNCHANGED <<vars, ranks>>

\* Tiers are applied from the lowest, or the lowest would win.
MutantNextTier == {a \in todo : \A b \in todo : a[1] >= b[1]}
NextTier == {a \in todo : \A b \in todo : a[1] =< b[1]}

\* Mutant: rows reported by the sidebar are taken for the others.
MutantMovable(t) == HasRow(t)

\* Rows the sidebar reported keep their place.
Movable(t) == HasRow(t) /\ priority[t] > Edited

ApplyTier ==
  /\ tier = "tiers"
  /\ \E a \in NextTier :
       /\ priority' = [t \in Title |->
                         IF Movable(t) /\ indeg[t] >= a[1] THEN a[2] ELSE priority[t]]
       /\ todo' = todo \ {a}
  /\ tier' = IF todo' = {} THEN "floor" ELSE "tiers"
  /\ UNCHANGED <<vars, pagerank, stage, indeg, kept>>

ApplyFloor ==
  /\ tier = "floor"
  /\ priority' = [t \in Title |-> IF Movable(t) /\ indeg[t] = 0 THEN Floor ELSE priority[t]]
  /\ tier' = "end"
  /\ UNCHANGED <<vars, pagerank, stage, indeg, todo, kept>>

-------------------------------------------------------------------------------
Scripts == WriteScores \/ ClearChrome \/ RankRows \/ CountLinks \/ ApplyTier \/ ApplyFloor

Services(t) == Report(t) \/ Discover(t)

RankNext ==
  \/ (Build \/ Grow) /\ UNCHANGED <<ranks, frontier>>
  \/ \E t \in Title : \/ /\ RemoveDoc(t) /\ pagerank' = [pagerank EXCEPT ![t] = 0]
                         /\ UNCHANGED <<priority, stage, frontier>>
                      \/ Services(t)
  \/ Scripts

RankSpec == RankInit /\ [][RankNext]_rankVars

-------------------------------------------------------------------------------
(* Properties.                                                             *)

\* Freshness before rank: what the sidebar reported, and the starter pages before
\* it, is never put back by a script, whatever the scripts read before.
EditsStayFirst ==
  [][\A t \in Title : HasRow(t) /\ priority[t] =< Edited =>
                        0 < priority'[t] /\ priority'[t] =< priority[t]]_rankVars

\* The design's trap ("the loosest tier wins"): in the end every row has the
\* priority of the highest tier its links reach, though each tier is a statement
\* of its own; except rows added, reported or ranked by others in between, which
\* keep what those wrote or what a later tier made of it.
HighestTierWins ==
  tier = "end" => \A t \in kept :
    IF indeg[t] = 0 THEN priority[t] = Floor
    ELSE \A a \in Tiers : /\ a[1] =< indeg[t]
                          /\ \A b \in Tiers : b[1] =< indeg[t] => b[1] =< a[1]
                          => priority[t] = a[2]

\* Where pagerank.py has just ranked them, more central pages come no later than
\* others, no page comes before a reported one, and a chrome page, whose score was
\* public for a moment, has gained nothing by it.
CentralComeFirst ==
  [][stage = "cleared" /\ stage' = "ranked" =>
       /\ \A t, u \in docs : /\ HasRow(t) /\ HasRow(u) /\ pagerank[t] > pagerank[u]
                             /\ pagerank[u] > 0 /\ priority[t] > Edited /\ priority[u] > Edited
                             => Edited < priority'[t] /\ priority'[t] =< priority'[u]
       /\ \A t \in Chrome : priority'[t] = priority[t]]_rankVars
===============================================================================
