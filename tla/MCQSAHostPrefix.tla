-------------------------- MODULE MCQSAHostPrefix --------------------------
(***************************************************************************)
(* Three prompts of two pages, two of which begin alike; room for two or   *)
(* three checkpoints, so that they share segments, compete for the budget  *)
(* and evict each other; one flush.                                        *)
(***************************************************************************)
EXTENDS QSAHostPrefix

MCRequests == {"a", "b", "c"}
MCContent == {"x", "y", "z"}
MCPrompt == [q \in MCRequests |-> CASE q = "a" -> <<"x", "y">>
                                  [] q = "b" -> <<"x", "z">>
                                  [] q = "c" -> <<"z", "y">>]

=============================================================================
