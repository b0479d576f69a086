--------------------------- MODULE MCNamingSeries ---------------------------
\* Instances of NamingSeries for TLC.
EXTENDS NamingSeries, TLC

Symmetry == Permutations(Requests)

=============================================================================
