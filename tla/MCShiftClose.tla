----------------------------- MODULE MCShiftClose -----------------------------
EXTENDS ShiftClose, TLC

CONSTANTS p1, p2, task, product, k1

Symmetry == Permutations({task, product}) \cup Permutations({p1, p2})
=============================================================================
