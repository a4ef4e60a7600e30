---------------------------- MODULE MCRBTreeOps ----------------------------
EXTENDS RBTreeOps, TLC

CONSTANTS n1, n2, n3, n4, n5, n6

MCNodes == {n1, n2, n3, n4, n5, n6}
MCSymmetry == Permutations(MCNodes)
=============================================================================
