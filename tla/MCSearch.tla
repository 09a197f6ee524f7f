------------------------------ MODULE MCSearch ------------------------------
(* Instances of Search for TLC: three documents, the first with two chunks,  *)
(* the category on one chunk of each of the first two.                       *)
EXTENDS Search, TLC

Docs     == {"a", "b", "c"}
Chunks   == {"a1", "a2", "b1", "c1"}
Belongs  == [x \in Chunks |-> CASE x \in {"a1", "a2"} -> "a" [] x = "b1" -> "b" [] OTHER -> "c"]
Tagged   == {"a1", "b1"}
\* 0 and 4 round to the same, 20 does not.
Scores   == {0, 4, 20}

Links(a, b, c) == [d \in Docs |-> CASE d = "a" -> a [] d = "b" -> b [] OTHER -> c]

\* No links; a pair; all linked; a ring.
FewGraphs == {Links({}, {}, {}), Links({"b"}, {"a"}, {}),
              Links({"b", "c"}, {"a", "c"}, {"a", "b"}), Links({"b"}, {"c"}, {"a"})}
FewRanks  == {Links(0, 0, 0), Links(0, 1, 2), Links(2, 1, 0)}
===============================================================================
