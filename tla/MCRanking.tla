------------------------------ MODULE MCRanking ------------------------------
(* Instances of Ranking and LinkGraph for TLC: three pages, the third chrome;  *)
(* two tiers.                                                                  *)
EXTENDS Ranking

\* Each page links to no other, to one, or to all others.
AllLinks  == {f \in [Title -> SUBSET Title] :
                \A t \in Title : f[t] \in {{}, {1 + (t % 3)}, Title \ {t}}}
TwoTiers  == {<<1, 180>>, <<2, 130>>}
AtFirst   == {[t \in Title |-> 200], [t \in Title |-> IF t = 1 THEN 0 ELSE 100],
              [t \in Title |-> IF t = 2 THEN 1 ELSE 200]}
===============================================================================
