---------------------------- MODULE MCQSAService ----------------------------
\* The constants are plain numbers, given in the configurations.
EXTENDS QSAService
=============================================================================
