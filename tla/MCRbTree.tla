------------------------------- MODULE MCRbTree -------------------------------
EXTENDS NcRbTree, TLC

NodeSymmetry == Permutations(Node)
==============================================================================
