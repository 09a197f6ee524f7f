------------------------------ MODULE MCCrawler ------------------------------
(* Instances of Crawler for TLC: a seed page, which may not exist at first,  *)
(* and another that its second version links to.                             *)
EXTENDS Crawler, TLC

CONSTANTS home, other, v1, v2

HomeLinks == v1 :> {home} @@ v2 :> {home, other}
AtFirst   == {home :> p @@ other :> v1 : p \in {v1, Gone}}
===============================================================================
