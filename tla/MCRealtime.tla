----------------------------- MODULE MCRealtime -----------------------------
\* Instances of Realtime for TLC: documents a1 and a2 of one DocType, b1 of
\* another.
EXTENDS Realtime, TLC

CONSTANTS a1, a2, b1

DocTypes == [d \in Docs |-> IF d = b1 THEN "B" ELSE "A"]

Symmetry == {p @@ q : p \in Permutations(Tabs), q \in Permutations({a1, a2})}

=============================================================================
