-------------------------- MODULE MCAccountClosure --------------------------
EXTENDS AccountClosure, TLC

CONSTANTS r1, w1, p1, p2

MCRequests == {r1}
MCWorkers == {w1}
MCProcs == {p1, p2}
MCSymmetry == Permutations(MCProcs)
=============================================================================
