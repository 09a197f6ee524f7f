----------------------------- MODULE MCDocParser -----------------------------
(* Instances of DocParser for TLC: an alias, its canonical page and versions *)
(* that share no chunk, differ in length, are headings alone or too short.   *)
EXTENDS DocParser, TLC

CONSTANTS alias, page, v1, v2, headings, stub, a, b, c

AliasFolds == alias :> page @@ page :> page
Cut        == v1 :> <<a, b>> @@ v2 :> <<c>> @@ headings :> <<>> @@ stub :> <<>>
Length     == v1 :> 20 @@ v2 :> 12 @@ headings :> 9 @@ stub :> 3

\* The page has lost its chunks; the crawler may report it deleted first.
Past       == {[x \in Title |-> IF x = page THEN v1 ELSE Absent]}
===============================================================================
