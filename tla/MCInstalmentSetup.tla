------------------------- MODULE MCInstalmentSetup -------------------------
EXTENDS InstalmentSetup, TLC

CONSTANTS r1, r2, c1, c2, w1, w2

MCRequests == {r1, r2}
MCClients == {c1, c2}
MCWorkers == {w1, w2}
MCSymmetry ==
    Permutations(MCRequests) \cup Permutations(MCClients) \cup Permutations(MCWorkers)
MCTotals == 99..104
MCFirstDates == {[month |-> m, day |-> d] : m \in {0, 10, 11}, d \in {1, 28, 30}}
=============================================================================
