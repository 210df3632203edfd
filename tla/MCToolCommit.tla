---------------------------- MODULE MCToolCommit ----------------------------
EXTENDS ToolCommit, TLC

CONSTANTS c1, c2

Symmetry == Permutations(Commits)
=============================================================================
