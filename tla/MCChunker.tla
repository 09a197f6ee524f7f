------------------------------ MODULE MCChunker ------------------------------
(* Instances of Chunker for TLC: one section of up to three paragraphs of up *)
(* to two sentences, some longer than TargetChars; and two sections.         *)
EXTENDS Chunker, TLC

Lengths    == {1, 2, 5, 10}
Paragraphs == {<<m>> : m \in Lengths} \cup (Lengths \X Lengths)
Short      == {<<m>> : m \in {1, 5, 10}} \cup {<<5, 2>>, <<10, 1>>}

Sections(P) == {<<p>> : p \in P} \cup (P \X P) \cup (P \X P \X P)

\* The character i of sentence s of paragraph p of section k.
Written(lengths) ==
  [k \in DOMAIN lengths |-> [p \in DOMAIN lengths[k] |-> [s \in DOMAIN lengths[k][p] |->
     [i \in 1..lengths[k][p][s] |-> <<k, p, s, i>>]]]]

Letter == (1..2) \X (1..3) \X (1..2) \X (1..10)

\* White space also in a sentence, where an overlap may begin with it.
White == {Gap} \cup {l \in Letter : l[4] \in {4, 9}}

Texts == {Written(d) : d \in {<<x>> : x \in Sections(Paragraphs)}
                              \cup ({<<p>> : p \in Paragraphs} \cup (Short \X Short))
                                \X ({<<p>> : p \in Short} \cup (Short \X Short))}
===============================================================================
