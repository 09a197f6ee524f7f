------------------------------- MODULE MCReplay -------------------------------
(* Instances of Replay for TLC: two chunks of one document. *)
EXTENDS Replay

CONSTANTS c1, c2, h1, h2, d

OneDocument == [c \in Chunk |-> d]
===============================================================================
