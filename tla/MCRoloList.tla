----------------------------- MODULE MCRoloList ------------------------------
(* Model values for module RoloList.                                       *)
EXTENDS RoloList

\* two entries that a name tells apart, the first with fields of its own, which may be
\* overwritten
ThreeEntries == {1, 2, 3}

\* none to two entries in any order, and some files of three
SomeFiles ==
  UNION {[1..n -> ThreeEntries] : n \in 0..2}
    \cup {<<1, 3, 3>>, <<2, 1, 3>>, <<3, 1, 3>>, <<3, 3, 1>>}

\* four entries of one name, and one that a search may overwrite
LongFiles == {<<3, 3, 3, 3>>, <<1>>}

=============================================================================
