------------------------ MODULE MCPostTransactions ------------------------
(* Instances of PostTransactions for TLC. *)
EXTENDS PostTransactions, TLC

\* Sessions, and rows, are interchangeable.
Symmetric == Permutations(Sessions) \cup Permutations(Targets)
=============================================================================
