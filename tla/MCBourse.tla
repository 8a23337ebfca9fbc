------------------------------ MODULE MCBourse ------------------------------
(* Model values for module Bourse.                                         *)
EXTENDS Bourse, TLC

CONSTANTS c1, c2, c3, m

TwoConns == {c1, c2}
TwoCallers == {c1, c2, <<c1>>, <<c2>>, <<m>>}
ThreeConns == {c1, c2, c3}
ThreeCallers == {c1, c2, c3, <<c1>>, <<c2>>, <<c3>>, <<m>>}

ConnSymmetry == Permutations(Conns)

=============================================================================
