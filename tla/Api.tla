--------------------------------- MODULE Api ---------------------------------
(***************************************************************************)
(* services/api.py: a request for one of the two endpoints that are more   *)
(* than a query, /api/search (module Search) or /api/graph/path (module    *)
(* GraphPath).  A handler keeps nothing for the next request, so requests  *)
(* meet in the database only, and each is checked alone.                   *)
(***************************************************************************)
EXTENDS Search

CONSTANTS Node, source, target, LinkGraphs, Hidden, MaxHops, FrontierCap

ASSUME PathAssumption ==
  /\ source \in Node /\ target \in Node /\ source # target
  /\ Hidden \subseteq Node
  /\ MaxHops \in Nat /\ FrontierCap \in Nat /\ IsFiniteSet(Node)
  /\ \A g \in LinkGraphs : \A e \in g : \E n, m \in Node : n # m /\ e = {n, m}

VARIABLES edges, fwd, bwd, hop, side, todo, path, capped, walk

pathVars == <<edges, fwd, bwd, hop, side, todo, path, capped, walk>>

Path == INSTANCE GraphPath WITH Graphs <- LinkGraphs, pc <- walk

\* The endpoint that is not asked for.
NoSearch == /\ Init /\ pagerank = [d \in Doc |-> 0] /\ outlinks = [d \in Doc |-> {}]
            /\ request = [category |-> FALSE, expand |-> FALSE, entityType |-> FALSE]
NoPath   == /\ edges = {} /\ fwd = Path!Nothing /\ bwd = Path!Nothing
            /\ hop = 0 /\ side = "fwd" /\ todo = Path!Nothing /\ path = <<>>
            /\ capped = FALSE /\ walk = "idle"

ApiInit == (Init /\ NoPath) \/ (NoSearch /\ Path!Init)

ApiNext == \/ walk = "idle" /\ Next /\ UNCHANGED pathVars
           \/ walk # "idle" /\ Path!Next /\ UNCHANGED vars

ApiSpec == ApiInit /\ [][ApiNext]_<<vars, pathVars>>

-------------------------------------------------------------------------------
\* The properties of GraphPath, of a request for a path: the path returned is a
\* shortest one, and pages within three hops are always linked.
PathIsShortest == walk # "idle" => Path!PathIsShortest
NearIsFound    == walk # "idle" => Path!NearIsFound
===============================================================================
