--------------------------- MODULE MCQSAWriteback ---------------------------
(* Two slots, one of them leased twice by turns; blocks of two tokens and a *)
(* hot buffer of two blocks, which a request of up to eight tokens outgrows.*)
EXTENDS QSAWriteback

=============================================================================
