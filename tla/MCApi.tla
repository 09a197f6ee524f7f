-------------------------------- MODULE MCApi --------------------------------
(* Instances of Api for TLC: the searches of MCSearch; for a path, every     *)
(* graph over the pages that may be on it, with a calendar page linked to    *)
(* either end, both or none.                                                 *)
EXTENDS Api, MCSearch

CONSTANTS s, t, a, b, c, d, year

Pages     == Node \ {year}
Pairs     == {{x, y} : <<x, y>> \in {p \in Pages \X Pages : p[1] # p[2]}}
                \cup {{s, year}, {year, t}}
AllGraphs == SUBSET Pairs
Symmetry  == Permutations(Pages \ {s, t})
===============================================================================
