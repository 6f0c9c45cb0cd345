---------------------------- MODULE MCQSALaunch ----------------------------
\* Two ranks; a server that ends with 0, with 17 or by a signal; two signals.
EXTENDS QSALaunch
CONSTANTS r0, r1
MCRanks == {r0, r1}
MCStatuses == {0, 17, -15}
MCSignals == {2, 15}
=============================================================================
