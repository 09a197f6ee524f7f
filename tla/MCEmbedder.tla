------------------------------ MODULE MCEmbedder ------------------------------
(* Instances of Embedder for TLC: two chunks and two contents. *)
EXTENDS Embedder

CONSTANTS c1, c2, h1, h2
===============================================================================
