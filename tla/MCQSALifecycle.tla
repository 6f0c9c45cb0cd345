-------------------------- MODULE MCQSALifecycle --------------------------
(* Three requests on two rows and two slots: a row is reused under a new   *)
(* generation, a slot under a new lease, and one request always waits.     *)
EXTENDS QSALifecycle, TLC

CONSTANTS ra, rb, rc

MCRows == 1..2
MCRids == {ra, rb, rc}
MCGenerations == 1..3
MCSymmetry == Permutations(MCRids)

===========================================================================
