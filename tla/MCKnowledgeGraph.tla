-------------------------- MODULE MCKnowledgeGraph --------------------------
(* Instances of KnowledgeGraph for TLC: a year and a town in it, and three  *)
(* pages: an admiral; a battle with a stray row of its commander, whose     *)
(* categories alone decide its class and were once taken for a person's; a  *)
(* realm with an emperor's row.                                             *)
EXTENDS KnowledgeGraph

Year    == "2020"
Town    == "2020/Busan"
Parents == [t \in {Town} |-> Year]

Cat(n, h) == [name |-> n, heads |-> h, names |-> {}, prefixed |-> FALSE, noise |-> FALSE]
Line(l, links, t) == [label |-> l, links |-> links, text |-> t]

Sailors == Cat("sailors", {"person"})
Battles == Cat("battles", {"event"})
Empires == Cat("empires", {"place"})
Natives == [Cat("natives of 2020/Busan", {"person"}) EXCEPT !.names = {Year, Town}]
Writers == [Cat("writers of 2020/Busan", {"person"}) EXCEPT !.names = {Year, Town}]
Prefixed == [Cat("category:natives", {"person"}) EXCEPT !.prefixed = TRUE]
Portal  == [Cat("portal", {}) EXCEPT !.noise = TRUE]

Admiral == [cats |-> <<Prefixed, Sailors>>,
            box  |-> <<Line("birth", {Year, "lunar"}, "lunar 2020"),
                       Line("birth", {Town}, "a later table")>>]
Battle  == [cats |-> <<Natives, Writers, Battles>>,
            box  |-> <<Line("family", {}, "a son")>>]
Realm   == [cats |-> <<Portal, Empires>>,
            box  |-> <<Line("death", {"lunar"}, "1592"), Line("capital", {Year}, "2020"),
                       Line("height", {}, "tall")>>]

\* The words of the title are left out of the link's text.
Shortened(p) ==
  IF p = Battle THEN <<Cat("natives", {"person"}), Cat("writers", {"person"}), Battles>>
  ELSE p.cats

TwoTitles  == {Year, Town}
OneAlias   == {"the year 2020"}
YearOnly   == {Year}
Lunar      == {"lunar"}
PagesOf(t) == IF t = Year THEN {Admiral, Battle} ELSE {Admiral, Battle, Realm}
===============================================================================
