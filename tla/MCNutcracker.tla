----------------------------- MODULE MCNutcracker -----------------------------
EXTENDS Nutcracker, TLC

ConnSymmetry == Permutations(Conn)
==============================================================================
