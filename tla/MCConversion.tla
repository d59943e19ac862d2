---------------------------- MODULE MCConversion ----------------------------
(***************************************************************************)
(* Small instances of Conversion.                                           *)
(***************************************************************************)
EXTENDS Conversion, TLC

CONSTANTS c1, c2, c3, r1, r2, r3, r4, q1, q2

TwoCommodities == {c1, c2}
ThreeCommodities == {c1, c2, c3}
ThreeRows == {r1, r2, r3}
FourRows == {r1, r2, r3, r4}
OneRequest == {q1}
TwoRequests == {q1, q2}

Recipe(ins, outs) == [inputs |-> ins, outputs |-> outs]

\* Two recipes that compete for c1, of which one makes an input of the other.
Chained == {Recipe({c1}, {c2}), Recipe({c1, c2}, {c3})}

\* A commodity that is refined into more of itself.
Overlapping == {Recipe({c1}, {c1, c2})}

Bought == {c1, c2}

Symmetry == Permutations(Rows) \cup Permutations(Requests)

=============================================================================
