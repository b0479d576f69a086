---------------------------- MODULE MCEmailQueue ----------------------------
\* Instances of EmailQueue for TLC.
EXTENDS EmailQueue, TLC

CONSTANTS w1, w2, m1, m2, r1, r2

TwoMails == {m1, m2}
Symmetry == Permutations(Recipients)

=============================================================================
