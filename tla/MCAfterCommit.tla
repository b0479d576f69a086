---------------------------- MODULE MCAfterCommit ---------------------------
\* Instances of AfterCommit for TLC.
EXTENDS AfterCommit, TLC

Symmetry == Permutations(Processes)

=============================================================================
