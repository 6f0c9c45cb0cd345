---------------------------- MODULE MCQSASlots ----------------------------
(* Two slots, three rows and two generations a row: rows outnumber slots,  *)
(* every row can be leased twice, and a lease of the first occupancy stays *)
(* available to stale callbacks.                                           *)
EXTENDS QSASlots, TLC

CONSTANTS ra, rb

MCRows == 1..3
MCGenerations == 1..2
MCRids == {ra, rb}
MCSymmetry == Permutations(MCRids)

===========================================================================
