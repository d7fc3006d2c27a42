---------------------------- MODULE MCPublishing ----------------------------
(* Instances of Publishing for TLC. *)
EXTENDS Publishing, TLC

CONSTANTS t1, t2, ch1

OneChannel == {ch1}
NoChannel  == {}
AllOnOne   == [t \in Targets |-> ch1]

\* Workers are interchangeable.
Symmetric == Permutations(Workers)
=============================================================================
