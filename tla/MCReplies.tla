----------------------------- MODULE MCReplies -----------------------------
(* Instances of Replies for TLC. *)
EXTENDS Replies, TLC

\* Workers, requests and replies are interchangeable.
Symmetric == Permutations(Workers) \cup Permutations(Calls) \cup Permutations(Replies)
=============================================================================
