-------------------------- MODULE MCQSACoordinator --------------------------
\* Two ranks, four requests on two leases; the first two that stay form the
\* initial batch, the others come behind it. Prompts of one to three chunks:
\* unaligned, aligned, with a prefix from the host and ending at once, and with
\* a prefix that leaves no whole page to capture.
EXTENDS QSACoordinator
MCRanks == {1, 2}
MCPrompt == <<7, 6, 5, 3>>
MCHit == <<0, 2, 0, 2>>
=============================================================================
