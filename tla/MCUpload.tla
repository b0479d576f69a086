------------------------------ MODULE MCUpload ------------------------------
\* Two batches of a small and a big file; the big ones have one name.
EXTENDS Upload, TLC

CONSTANTS x, y, s1, s2, g1, g2, nA, nB

Plans == x :> <<s1, g1>> @@ y :> <<g2, s2>>
FileNames == s1 :> nB @@ g1 :> nA @@ g2 :> nA @@ s2 :> nB

=============================================================================
