------------------------------- MODULE Chunker -------------------------------
(***************************************************************************)
(* chunker.py: the sections of a document cut into overlapping chunks.     *)
(*                                                                         *)
(* A section is a sequence of paragraphs, a paragraph a sequence of        *)
(* sentences, a sentence a sequence of characters that occur nowhere else, *)
(* so that a copy of a character is seen as one.  No sentence begins or    *)
(* ends with white space; Gap is the white space between two of them.  The *)
(* patterns that find paragraphs and sentences, and the heading path put   *)
(* before each chunk, are left out.                                        *)
(***************************************************************************)
EXTENDS Integers, Sequences, SequencesExt

CONSTANTS Char,         \* the characters of sentences
          Gap,
          Blank,        \* white space: Gap, and some of Char
          Documents,    \* the documents to cut: sequences of sections
          TargetChars,  \* TARGET_CHARS
          OverlapChars, \* OVERLAP_CHARS
          MinChars      \* MIN_CHARS

\* What a section says, without the white space between its sentences.
Letters(sec) == FlattenSeq([i \in DOMAIN sec |-> FlattenSeq(sec[i])])

ASSUME ChunkerAssumption ==
  /\ TargetChars \in Nat \ {0} /\ OverlapChars \in Nat /\ MinChars \in Nat
  /\ Gap \notin Char /\ Gap \in Blank
  /\ \A d \in Documents :
       /\ d \in Seq(Seq(Seq(Seq(Char))))
       /\ \A k \in DOMAIN d :
            /\ d[k] # <<>> /\ IsInjective(Letters(d[k]))
            /\ \A p \in DOMAIN d[k] :
                 /\ d[k][p] # <<>>
                 /\ \A s \in ToSet(d[k][p]) : s # <<>> /\ {s[1], Last(s)} \cap Blank = {}
       /\ \A k, l \in DOMAIN d :
            k # l => ToSet(Letters(d[k])) \cap ToSet(Letters(d[l])) = {}

VARIABLES doc,     \* extracted.sections, none of them blank
          cut,     \* sections that were split
          pieces,  \* pieces not merged yet: the section and the body of each
          merged

chunkVars == <<doc, cut, pieces, merged>>

ChunkInit == doc \in Documents /\ cut = 0 /\ pieces = <<>> /\ merged = <<>>

-------------------------------------------------------------------------------
\* strip(), of text whose white space is at its beginning.
Stripped(s) ==
  LET said == {i \in 1..Len(s) : s[i] \notin Blank}
  IN  IF said = {} THEN <<>> ELSE SubSeq(s, Min(said), Len(s))

Join(a, b) == IF a = <<>> THEN b ELSE a \o <<Gap>> \o b

\* Mutant: one character too many.
MutantSuffix(s, k) == SubSeq(s, IF Len(s) > k THEN Len(s) - k ELSE 1, Len(s))
Suffix(s, k) == SubSeq(s, IF Len(s) > k THEN Len(s) - k + 1 ELSE 1, Len(s))

Fits(buf, unit) == Len(buf) + Len(unit) + 1 =< TargetChars

\* The texts so far and one unit more; the last text is the buffer.  A buffer
\* that is full is left, and the next one begins with its end.
Put(texts, unit, overlap) ==
  LET n == Len(texts)
  IN  CASE n = 0 -> <<unit>>
        [] n # 0 /\ Fits(texts[n], unit)  -> [texts EXCEPT ![n] = Join(@, unit)]
        [] n # 0 /\ ~Fits(texts[n], unit) ->
             Append(texts, Join(Stripped(Suffix(texts[n], overlap)), unit))

\* Mutant: the buffer that is not full is forgotten.
MutantPack(units, overlap) ==
  LET packed[i \in 0..Len(units)] ==
        IF i = 0 THEN <<>> ELSE Put(packed[i - 1], units[i], overlap)
      all == packed[Len(units)]
  IN  IF Len(all) > 1 THEN SubSeq(all, 1, Len(all) - 1) ELSE all

Pack(units, overlap) ==
  LET packed[i \in 0..Len(units)] ==
        IF i = 0 THEN <<>> ELSE Put(packed[i - 1], units[i], overlap)
  IN  packed[Len(units)]

Spaced(texts, space) ==
  FlattenSeq([i \in DOMAIN texts |-> IF i = 1 THEN texts[i] ELSE space \o texts[i]])

\* A blank line separates paragraphs.
Paragraph(p) == Spaced(p, <<Gap>>)
Text(sec)    == Spaced([i \in DOMAIN sec |-> Paragraph(sec[i])], <<Gap, Gap>>)

\* Units no longer than TargetChars, but for sentences that are.
Units(sec) ==
  FlattenSeq([i \in DOMAIN sec |-> IF Len(Paragraph(sec[i])) =< TargetChars
                                     THEN <<Paragraph(sec[i])>> ELSE Pack(sec[i], 0)])

SplitLong(sec) ==
  IF Len(Text(sec)) =< TargetChars THEN <<Text(sec)>> ELSE Pack(Units(sec), OverlapChars)

-------------------------------------------------------------------------------
Split ==
  /\ cut < Len(doc)
  /\ cut' = cut + 1
  /\ LET texts == SplitLong(doc[cut'])
     IN  pieces' = pieces \o [i \in DOMAIN texts |-> [sid |-> cut', text |-> texts[i]]]
  /\ UNCHANGED <<doc, merged>>

\* Mutant: however long it has become.
MutantJoins(piece) ==
  merged # <<>> /\ Len(piece.text) < MinChars /\ Last(merged).sid = piece.sid

\* A short piece joins the chunk before it, if that is of its section and not full.
Joins(piece) ==
  /\ merged # <<>> /\ Len(piece.text) < MinChars
  /\ Last(merged).sid = piece.sid
  /\ 2 * (Len(Last(merged).text) + Len(piece.text)) =< 3 * TargetChars

Merge ==
  /\ cut = Len(doc) /\ pieces # <<>>
  /\ pieces' = Tail(pieces)
  /\ merged' = IF Joins(Head(pieces))
                 THEN [merged EXCEPT ![Len(merged)].text = Join(@, Head(pieces).text)]
                 ELSE Append(merged, Head(pieces))
  /\ UNCHANGED <<doc, cut>>

ChunkNext == Split \/ Merge

ChunkSpec == ChunkInit /\ [][ChunkNext]_chunkVars

-------------------------------------------------------------------------------
(* Properties.                                                             *)

Done == cut = Len(doc) /\ pieces = <<>>

\* Nothing of a document is lost by cutting and merging, nothing moves and nothing
\* changes its section: each character of a section is in a chunk of it, and
\* nowhere before the character it follows has been read.
TextIsWhole ==
  Done => \A k \in DOMAIN doc :
    LET letters == Letters(doc[k])
        places  == UNION {{j} \X DOMAIN merged[j].text :
                            j \in {i \in DOMAIN merged : merged[i].sid = k}}
        at(p)   == merged[p[1]].text[p[2]]
    IN  /\ \A i \in DOMAIN letters : \E p \in places : at(p) = letters[i]
        /\ \A p \in places : at(p) # Gap =>
             \E i \in DOMAIN letters :
               /\ at(p) = letters[i]
               /\ i = 1 \/ \E r \in places : /\ at(r) = letters[i - 1]
                                             /\ \/ r[1] < p[1]
                                                \/ r[1] = p[1] /\ r[2] < p[2]

\* A chunk repeats only what the chunk before it ends with: at most OverlapChars
\* characters, at its beginning, and only of its own section.  (A piece merged
\* into it keeps its own beginning, so a chunk may repeat itself as well.)
RepeatIsOverlap ==
  Done => \A j \in 2..Len(merged) :
    LET text     == merged[j].text
        previous == merged[j - 1].text
        before   == UNION {ToSet(merged[i].text) : i \in 1..(j - 1)}
    IN  \E k \in 0..OverlapChars :
          /\ k =< Len(text) /\ k =< Len(previous)
          /\ \A q \in 1..k : text[q] = previous[Len(previous) - k + q]
          /\ \A q \in DOMAIN text : text[q] \in before =>
               text[q] = Gap \/ \E i \in 1..k : text[q] = text[i]

\* How long a chunk can be: half as long again as TargetChars when a piece was merged,
\* else the overlap more than the longest unit, and a unit exceeds TargetChars
\* only if it is one sentence.
SizeBounded ==
  Done => \A j \in DOMAIN merged :
    LET text     == merged[j].text
        sentence == UNION {ToSet(p) : p \in ToSet(doc[merged[j].sid])}
    IN  \/ 2 * (Len(text) - 1) =< 3 * TargetChars
        \/ Len(text) - OverlapChars - 1 =< TargetChars
        \/ \E s \in sentence : /\ Len(text) - OverlapChars - 1 =< Len(s)
                                /\ ToSet(s) \subseteq ToSet(text)
===============================================================================
