------------------------------ MODULE MCFrontier ------------------------------
(* Instances of Frontier for TLC: one page. *)
EXTENDS Frontier

CONSTANT p
===============================================================================
