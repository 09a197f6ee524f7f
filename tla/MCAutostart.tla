----------------------------- MODULE MCAutostart -----------------------------
(* Instances of Autostart for TLC: two chunks and two contents. *)
EXTENDS Autostart

CONSTANTS c1, c2, h1, h2
===============================================================================
