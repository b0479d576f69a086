----------------------------- MODULE MCDeskForm -----------------------------
\* Instances of DeskForm for TLC.
EXTENDS DeskForm, TLC

Symmetry == Permutations(Slots)

=============================================================================
