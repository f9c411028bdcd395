-------------------------- MODULE MCInstalmentSync --------------------------
EXTENDS InstalmentSync

CONSTANTS w1, w2, k1, r1, r2

MCWorkers == {w1, w2}
MCOneWorker == {w1}
MCReconcilers == {k1}
MCNobody == {}
MCRequesters == {r1, r2}
MCOneRequester == {r1}
=============================================================================
