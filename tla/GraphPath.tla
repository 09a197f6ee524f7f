------------------------------ MODULE GraphPath ------------------------------
(***************************************************************************)
(* api.graph_path: the path that links two pages, by a search that grows   *)
(* from both ends.  Each hop expands the smaller side: one step fetches    *)
(* the neighbours of its frontier, one step per neighbour adds it, and the *)
(* first neighbour known to the other side ends the search.                *)
(*                                                                         *)
(* The order in which rows and neighbours come back is the database's: a   *)
(* hop takes the nodes of its frontier in any order, each with all of its  *)
(* neighbours.  Links are taken in both directions, so the graph is        *)
(* undirected.  A calendar or chrome page is never anyone's neighbour.     *)
(***************************************************************************)
EXTENDS Integers, Sequences, FiniteSets

CONSTANTS Node, source, target,
          Graphs,        \* the graphs to search: sets of two-element sets
          Hidden,        \* the calendar and chrome pages
          MaxHops,       \* max_hops
          FrontierCap    \* the neighbours of at most this many nodes are read (400)

VARIABLES
  edges,   \* the graph
  fwd,     \* paths from the source, by the node they reach
  bwd,     \* paths from the target
  hop,
  side,    \* which of them this hop grows
  todo,    \* neighbours still to add, by the node they were found from
  path,    \* the path returned
  capped,  \* history: some frontier was larger than FrontierCap
  pc

vars == <<edges, fwd, bwd, hop, side, todo, path, capped, pc>>

Nothing == [n \in {} |-> <<>>]

Init ==
  /\ edges \in Graphs
  /\ fwd = [n \in {source} |-> <<source>>]
  /\ bwd = [n \in {target} |-> <<target>>]
  /\ hop = 0 /\ side = "fwd" /\ todo = Nothing /\ path = <<>>
  /\ capped = FALSE /\ pc = "grow"

Neighbors(n) == {m \in Node \ {n} : {n, m} \in edges /\ m \notin Hidden}

Backwards(p) == [i \in 1..Len(p) |-> p[Len(p) + 1 - i]]

Smaller == IF Cardinality(DOMAIN fwd) =< Cardinality(DOMAIN bwd) THEN "fwd" ELSE "bwd"
Side(s) == IF s = "fwd" THEN fwd ELSE bwd
Grow    == Side(side)
Other   == IF side = "fwd" THEN bwd ELSE fwd

\* The nodes whose paths are as long as this hop expects; all, if there are none.
AtDepth(paths) == {n \in DOMAIN paths : Len(paths[n]) = hop \div 2 + 1}
MutantFrontier(paths) == {n \in DOMAIN paths : Len(paths[n]) = 1}
Frontier(paths) == IF AtDepth(paths) # {} THEN AtDepth(paths) ELSE DOMAIN paths

StartHop ==
  /\ pc = "grow" /\ hop < MaxHops
  /\ side' = Smaller
  /\ \E S \in SUBSET Frontier(Side(Smaller)) :
       /\ S = Frontier(Side(Smaller)) \/ Cardinality(S) = FrontierCap
       /\ Cardinality(S) =< FrontierCap
       /\ todo' = [n \in S |-> Neighbors(n)]
       /\ capped' = (capped \/ S # Frontier(Side(Smaller)))
  /\ pc' = "expand"
  /\ UNCHANGED <<edges, fwd, bwd, hop, path>>

\* Join the two halves: the shared node is in both, and is kept once.
MutantJoined(p, q) == p \o Backwards(q)
Joined(p, q) == p \o Tail(Backwards(q))

\* One neighbour d of n, when no other node is half done.
Expand(n, d) ==
  /\ pc = "expand" /\ n \in DOMAIN todo /\ d \in todo[n]
  /\ \A m \in DOMAIN todo \ {n} : todo[m] \in {{}, Neighbors(m)}
  /\ todo' = [todo EXCEPT ![n] = @ \ {d}]
  /\ LET grown == IF d \in DOMAIN Grow THEN Grow
                  ELSE [m \in DOMAIN Grow \cup {d} |->
                          IF m = d THEN Append(Grow[n], d) ELSE Grow[m]]
         meets == d \notin DOMAIN Grow /\ d \in DOMAIN Other
     IN /\ fwd' = IF side = "fwd" THEN grown ELSE fwd
        /\ bwd' = IF side = "bwd" THEN grown ELSE bwd
        /\ path' = IF ~meets THEN path
                   ELSE IF side = "fwd" THEN Joined(grown[d], Other[d])
                                        ELSE Joined(Other[d], grown[d])
        /\ pc' = IF meets THEN "found" ELSE "expand"
  /\ UNCHANGED <<edges, hop, side, capped>>

EndHop ==
  /\ pc = "expand" /\ \A n \in DOMAIN todo : todo[n] = {}
  /\ hop' = hop + 1 /\ todo' = Nothing
  /\ pc' = "grow"
  /\ UNCHANGED <<edges, fwd, bwd, side, path, capped>>

GiveUp ==
  /\ pc = "grow" /\ hop = MaxHops
  /\ pc' = "none"
  /\ UNCHANGED <<edges, fwd, bwd, hop, side, todo, path, capped>>

Next == StartHop \/ EndHop \/ GiveUp \/ \E n, d \in Node : Expand(n, d)

Spec == Init /\ [][Next]_vars

-------------------------------------------------------------------------------
(* Properties.                                                             *)

\* A walk of k links from the source to the target, with no hidden page between.
Walk(w, k) ==
  /\ w[0] = source /\ w[k] = target
  /\ \A i \in 1..k : {w[i - 1], w[i]} \in edges
Linked(k) ==
  \E inner \in [1..(k - 1) -> Node \ Hidden] :
    Walk([i \in 0..k |-> IF i = 0 THEN source ELSE IF i = k THEN target ELSE inner[i]], k)

\* A hidden page is nobody's neighbour, and so is a target that is one: a link
\* straight to it can be followed from its own side alone.
Findable(k) == Linked(k) /\ ~(k = 1 /\ target \in Hidden)

\* A path returned leads from the source to the target over links of the graph,
\* visits no page twice and has at most max_hops hops.
PathIsReal ==
  /\ path[1] = source /\ path[Len(path)] = target
  /\ \A i \in 1..(Len(path) - 1) : {path[i], path[i + 1]} \in edges
  /\ \A i, j \in 1..Len(path) : i # j => path[i] # path[j]
  /\ Len(path) - 1 =< MaxHops

\* "The shortest path": a path returned is one, and unless a frontier was cut
\* off none with fewer hops avoids calendar and chrome pages on the way.
PathIsShortest ==
  pc = "found" =>
    /\ PathIsReal
    /\ capped \/ \A k \in 1..(Len(path) - 2) : ~Findable(k)

\* Three hops always reach: the search gives up only on pages further apart.
\* (It does give up on some that are max_hops apart: the depth a hop expects is
\* hop \div 2 + 1 whichever side it grows, so a side that grows more often
\* expands again what it has expanded, and its deepest pages late or never.)
NearIsFound ==
  pc = "none" => capped \/ \A k \in 1..3 : k =< MaxHops => ~Findable(k)
===============================================================================
